------------------------------ MODULE Ps2_proofs ------------------------------
(***************************************************************************)
(* Proofs about keyboard and mouse, for every configuration the firmware   *)
(* leaves, every set of reports and keys and every size of display and     *)
(* buffer.                                                                 *)
(***************************************************************************)
EXTENDS Ps2, SequenceTheorems, TLAPS

Places == {"ask", "config", "defaults", "defaultsSent", "enable", "enableSent",
           "keyboard", "mouse", "display", "done"}
Ports == [byte : Byte, full : BOOLEAN, from : {"controller", "keyboard", "answer", "report"}]
Lines == [reporting : BOOLEAN, report : Byte \X Byte \X Byte, sent : 0 .. 2]
Mice == [X : Int, Y : Int, buttons : SUBSET {1, 2, 4}, Cycle : 0 .. 2,
         Packet : [0 .. 2 -> Byte], PacketReady : BOOLEAN]

ControllerTyped ==
    /\ pc \in Places /\ config \in Byte /\ port \in Ports
    /\ irq \in {"none", "keyboard", "mouse"}
    /\ mishaps \subseteq Mishaps

KeyboardTyped ==
    /\ held \subseteq Keys
    /\ DOMAIN kb.buffer = 0 .. BufferSize - 1 /\ kb.bufferIndex \in 0 .. BufferSize - 1
    /\ DOMAIN kb = {"LeftShift", "RightShift", "CapsLock", "buffer", "bufferIndex"}

MouseTyped == line \in Lines /\ mouse \in Mice /\ skipPacket \in BOOLEAN

(* Every answer is to a command that Mouse::Init has sent, in its order.   *)
Commands ==
    /\ answers \in Seq({"defaults", "enable"}) /\ Len(answers) \in 0 .. 2
    /\ pc \in {"ask", "config", "defaults"} => answers = <<>>
    /\ pc \in {"defaultsSent", "enable"} => Len(answers) <= 1

(* Until the mode is written the mouse is silent; the answer to the        *)
(* question for it stays in the port, unless a key is struck; and from     *)
(* then on every byte of the mouse raises an interrupt.                    *)
Configured ==
    /\ pc \in {"ask", "config"} => config = Firmware /\ ~line.reporting /\ irq # "mouse"
    /\ pc = "config" /\ "code for configuration" \notin mishaps => port.byte = Firmware
    /\ pc \notin {"ask", "config"} => Bit(config, 2)
    /\ ConfigurationKept

(* By the first report skipPacket is spent on an acknowledgement.          *)
Skipped ==
    /\ irq = "mouse" => FromMouse(port.from)
    /\ line.reporting /\ irq # "mouse" => ~skipPacket
    /\ irq = "mouse" /\ port.from = "report" => ~skipPacket

Pending == irq = "mouse" /\ port.from = "report"

(* The handler is behind the mouse by the byte that is pending.            *)
InStep ==
    /\ ~MouseSet => mouse.Cycle = 0
    /\ irq = "mouse" /\ port.from = "answer" /\ MouseSet => "late answer" \in mishaps
    /\ mishaps \cap OutOfStep = {} =>
         line.sent = IF Pending THEN (mouse.Cycle + 1) % 3 ELSE mouse.Cycle

IndInv ==
    /\ ControllerTyped /\ KeyboardTyped /\ MouseTyped
    /\ Commands /\ Configured /\ Skipped /\ InStep

(***************************************************************************)
(* Lemmas about the pieces that actions are made of.                       *)
(***************************************************************************)
LEMMA SetBitSets ==
    ASSUME NEW b \in Byte
    PROVE  SetBit(b, 2) \in Byte /\ Bit(SetBit(b, 2), 2)
BY DEF SetBit, Bit, Byte

LEMMA KeyCodes ==
    ASSUME NEW key \in Keys
    PROVE  key \in Byte /\ key + KEYUP_OFFSET \in Byte
<1>1. DOMAIN ScanCodeSet1 \subseteq 2 .. KEY_SPACE
  BY Ps2Assumption
<1> QED
  BY <1>1 DEF Keys, Shifts, Byte, KEY_SPACE, KEY_LEFTSHIFT, KEY_RIGHTSHIFT, KEY_BACKSPACE,
              KEY_CAPSLOCK, KEYUP_OFFSET

(* What arrives, and the interrupt it raises.                              *)
LEMMA ArriveTyped ==
    ASSUME ControllerTyped, NEW byte \in Byte,
           NEW from \in {"controller", "keyboard", "answer", "report"}, Arrive(byte, from)
    PROVE  /\ port' \in Ports /\ port'.byte = byte /\ port'.from = from
           /\ irq = "none" /\ irq' \in {"none", "keyboard", "mouse"}
           /\ irq' = "mouse" => FromMouse(from)
           /\ FromMouse(from) /\ Bit(config, 2) => irq' = "mouse"
<1>1. port' = [byte |-> byte, full |-> TRUE, from |-> from] /\ irq = "none"
  BY DEF Arrive
<1>2. port' \in Ports /\ port'.byte = byte /\ port'.from = from
  BY <1>1 DEF Ports
<1>3. CASE FromMouse(from)
  BY <1>1, <1>2, <1>3 DEF Arrive
<1>4. CASE ~FromMouse(from)
  BY <1>1, <1>2, <1>4 DEF Arrive
<1> QED
  BY <1>3, <1>4

LEMMA TakeTyped ==
    ASSUME ControllerTyped, Take
    PROVE  /\ port' \in Ports /\ port'.byte = port.byte /\ port'.from = port.from
           /\ mishaps' \subseteq Mishaps /\ mishaps \subseteq mishaps'
           /\ mishaps' \subseteq mishaps \cup {"missed code"}
           /\ UNCHANGED <<irq, line, keyboard, drivers, target>>
<1>1. port' = [port EXCEPT !.full = FALSE] /\ port \in Ports
  BY DEF Take, ControllerTyped
<1>2. port' \in Ports /\ port'.byte = port.byte /\ port'.from = port.from
  BY <1>1 DEF Ports
<1>3. /\ mishaps' \subseteq Mishaps /\ mishaps \subseteq mishaps'
      /\ mishaps' \subseteq mishaps \cup {"missed code"}
  BY DEF Take, If, ControllerTyped, Mishaps
<1> QED
  BY <1>2, <1>3 DEF Take

LEMMA InitIndInv == Init => IndInv
<1> SUFFICES ASSUME Init PROVE IndInv
  OBVIOUS
<1>1. ControllerTyped
  BY Ps2Assumption DEF Init, ControllerTyped, Places, Ports, Byte
<1>2. KeyboardTyped
  BY Ps2Assumption DEF Init, KeyboardTyped
<1>3. MouseTyped
  BY DEF Init, MouseTyped, Lines, Mice, Byte
<1>4. Commands /\ Configured /\ Skipped /\ InStep
  BY DEF Init, Commands, Configured, ConfigurationKept, Skipped, InStep, Pending, MouseSet
<1> QED
  BY <1>1, <1>2, <1>3, <1>4 DEF IndInv

(* HandlePacket keeps its place in the packet, and the pointer where there *)
(* is room for it.                                                         *)
LEMMA HandlePacketTyped ==
    ASSUME NEW m \in Mice, NEW size \in (Nat \ {0}) \X (Nat \ {0})
    PROVE  LET h == HandlePacket(m, size)
           IN  /\ h \in Mice /\ h.Cycle = m.Cycle /\ h.Packet = m.Packet
               /\ <<h.X, h.Y>> # <<m.X, m.Y>> =>
                    h.X \in 0 .. size[1] - 1 /\ h.Y \in 0 .. size[2] - 1
<1> DEFINE h == HandlePacket(m, size)
           flags == m.Packet[0]
           right == Moved(m.X, m.Packet[1], Bit(flags, 16), Bit(flags, 64))
           up == Moved(-m.Y, m.Packet[2], Bit(flags, 32), Bit(flags, 128))
           x == ClampState(right, size[1])
           y == ClampState(-up, size[2])
           pressed == {b \in {1, 2, 4} : Bit(flags, b)}
<1>1. CASE ~m.PacketReady
  BY <1>1 DEF HandlePacket
<1>2. CASE m.PacketReady
  <2>1. /\ m.X \in Int /\ m.Y \in Int /\ m.Packet[1] \in Int /\ m.Packet[2] \in Int
        /\ size[1] \in Nat \ {0} /\ size[2] \in Nat \ {0}
    BY DEF Mice, Byte
  <2>2. right \in Int /\ up \in Int
    BY <2>1 DEF Moved
  <2>3. h = [m EXCEPT !.PacketReady = FALSE, !.X = x, !.Y = y, !.buttons = pressed]
    BY <1>2 DEF HandlePacket
  <2>4. pressed \in SUBSET {1, 2, 4}
    OBVIOUS
  <2> HIDE DEF right, up, h, pressed
  <2>5. x \in 0 .. size[1] - 1 /\ y \in 0 .. size[2] - 1
    BY <2>1, <2>2 DEF ClampState
  <2> HIDE DEF x, y
  <2>6. x \in Int /\ y \in Int
    BY <2>1, <2>5
  <2>7. h \in Mice
    <3>1. [m EXCEPT !.PacketReady = FALSE] \in Mice
      BY DEF Mice
    <3>2. [m EXCEPT !.PacketReady = FALSE, !.X = x] \in Mice
      BY <3>1, <2>6 DEF Mice
    <3>3. [m EXCEPT !.PacketReady = FALSE, !.X = x, !.Y = y] \in Mice
      BY <3>2, <2>6 DEF Mice
    <3> QED
      BY <3>3, <2>3, <2>4 DEF Mice
  <2>8. h.Cycle = m.Cycle /\ h.Packet = m.Packet /\ h.X = x /\ h.Y = y
    BY <2>3 DEF Mice
  <2> QED
    BY <2>5, <2>7, <2>8 DEF h
<1> QED
  BY <1>1, <1>2

LEMMA StoreTyped ==
    ASSUME NEW m \in Mice, NEW data \in Byte
    PROVE  LET s == Store(m, data)
           IN  s \in Mice /\ s.Cycle = (m.Cycle + 1) % 3 /\ s.X = m.X /\ s.Y = m.Y
<1> DEFINE packet == [m.Packet EXCEPT ![m.Cycle] = data]
           cycle == (m.Cycle + 1) % 3
           ready == (m.Cycle = 2)
<1>1. packet \in [0 .. 2 -> Byte] /\ cycle \in 0 .. 2 /\ ready \in BOOLEAN
  BY DEF Mice
<1>2. Store(m, data) = [m EXCEPT !.Packet = packet, !.Cycle = cycle, !.PacketReady = ready]
  BY DEF Store, Mice
<1> HIDE DEF packet, cycle, ready
<1>3. [m EXCEPT !.Packet = packet] \in Mice
  BY <1>1 DEF Mice
<1>4. [m EXCEPT !.Packet = packet, !.Cycle = cycle] \in Mice
  BY <1>1, <1>3 DEF Mice
<1>5. Store(m, data) \in Mice
  BY <1>1, <1>2, <1>4 DEF Mice
<1>6. /\ Store(m, data).Cycle = cycle
      /\ Store(m, data).X = m.X /\ Store(m, data).Y = m.Y
  BY <1>2 DEF Mice
<1> QED
  BY <1>5, <1>6 DEF cycle

(* The mouse after its handler.                                            *)
Handled(m, size, data, n) ==
    /\ n \in Mice
    /\ n.Cycle = IF skipPacket THEN m.Cycle ELSE (m.Cycle + 1) % 3
    /\ <<n.X, n.Y>> # <<m.X, m.Y>> =>
         n.X \in 0 .. size[1] - 1 /\ n.Y \in 0 .. size[2] - 1

LEMMA HandlerMoves ==
    ASSUME NEW m \in Mice, NEW size \in (Nat \ {0}) \X (Nat \ {0}), NEW data \in Byte, NEW n,
           n = IF skipPacket THEN HandlePacket(m, size) ELSE Store(HandlePacket(m, size), data)
    PROVE  Handled(m, size, data, n)
<1> DEFINE h == HandlePacket(m, size)
<1>1. /\ h \in Mice /\ h.Cycle = m.Cycle
      /\ <<h.X, h.Y>> # <<m.X, m.Y>> =>
           h.X \in 0 .. size[1] - 1 /\ h.Y \in 0 .. size[2] - 1
  BY HandlePacketTyped
<1>2. n = IF skipPacket THEN h ELSE Store(h, data)
  OBVIOUS
<1> HIDE DEF h
<1>3. CASE skipPacket
  BY <1>1, <1>2, <1>3 DEF Handled
<1>4. CASE ~skipPacket
  <2>1. n = Store(h, data)
    BY <1>2, <1>4
  <2>2. n \in Mice /\ n.Cycle = (h.Cycle + 1) % 3 /\ n.X = h.X /\ n.Y = h.Y
    BY <1>1, <2>1, StoreTyped
  <2> QED
    BY <1>1, <1>4, <2>2 DEF Handled
<1> QED
  BY <1>3, <1>4

LEMMA KeyboardHandleTyped ==
    ASSUME KeyboardTyped, NEW code
    PROVE  LET k == KeyboardHandle(kb, code)
           IN  /\ DOMAIN k.buffer = 0 .. BufferSize - 1 /\ k.bufferIndex \in 0 .. BufferSize - 1
               /\ DOMAIN k = {"LeftShift", "RightShift", "CapsLock", "buffer", "bufferIndex"}
<1>1. BufferSize \in Nat /\ BufferSize > 1
  BY Ps2Assumption
<1>2. Slot(kb) \in 0 .. BufferSize - 2
  BY <1>1 DEF Slot, KeyboardTyped
<1>3. CASE code = KEY_BACKSPACE
  BY <1>1, <1>3 DEF KeyboardHandle, KeyboardTyped
<1>4. CASE code \in {KEY_LEFTSHIFT, KEY_RIGHTSHIFT, KEY_LEFTSHIFT + KEYUP_OFFSET,
                     KEY_RIGHTSHIFT + KEYUP_OFFSET, KEY_CAPSLOCK}
  BY <1>4 DEF KeyboardHandle, KeyboardTyped, KEY_BACKSPACE, KEY_LEFTSHIFT, KEY_RIGHTSHIFT,
              KEY_CAPSLOCK, KEYUP_OFFSET
<1>5. CASE code \notin {KEY_BACKSPACE, KEY_LEFTSHIFT, KEY_RIGHTSHIFT,
                        KEY_LEFTSHIFT + KEYUP_OFFSET, KEY_RIGHTSHIFT + KEYUP_OFFSET,
                        KEY_CAPSLOCK}
  <2> DEFINE translated == Translate(code, UpperCase(kb), kb.CapsLock)
             slot == Slot(kb)
  <2>1. KeyboardHandle(kb, code)
          = IF translated = NUL THEN kb
            ELSE [kb EXCEPT !.buffer[slot] = translated, !.bufferIndex = slot + 1]
    BY <1>5 DEF KeyboardHandle
  <2> HIDE DEF translated, slot
  <2>2. slot + 1 \in 0 .. BufferSize - 1
    BY <1>1, <1>2 DEF slot
  <2> QED
    BY <2>1, <2>2 DEF KeyboardTyped
<1> QED
  BY <1>3, <1>4, <1>5

-----------------------------------------------------------------------------
(***************************************************************************)
(* Mouse::Init.                                                            *)
(***************************************************************************)
LEMMA AskConfigIndInv ==
    ASSUME IndInv, AskConfig
    PROVE  IndInv'
<1>1. /\ pc = "ask" /\ pc' = "config" /\ Arrive(config, "controller")
      /\ UNCHANGED <<config, answers, line, keyboard, drivers, target, mishaps>>
  BY DEF AskConfig, Step
<1>2. /\ config = Firmware /\ answers = <<>> /\ ~line.reporting /\ config \in Byte
  BY <1>1 DEF IndInv, Configured, Commands, ControllerTyped
<1>3. /\ port' \in Ports /\ port'.byte = config /\ port'.from = "controller"
      /\ irq = "none" /\ irq' \in {"none", "keyboard", "mouse"} /\ irq' # "mouse"
  BY <1>1, <1>2, ArriveTyped DEF IndInv, FromMouse
<1>4. ControllerTyped'
  BY <1>1, <1>3 DEF IndInv, ControllerTyped, Places
<1>5. KeyboardTyped' /\ MouseTyped'
  BY <1>1 DEF IndInv, KeyboardTyped, MouseTyped, keyboard, drivers
<1>6. Commands' /\ Configured'
  BY <1>1, <1>2, <1>3 DEF IndInv, Commands, Configured, ConfigurationKept
<1>7. Skipped' /\ InStep'
  BY <1>1, <1>2, <1>3 DEF IndInv, Skipped, InStep, Pending, MouseSet, drivers
<1> QED
  BY <1>4, <1>5, <1>6, <1>7 DEF IndInv

LEMMA ReadConfigIndInv ==
    ASSUME IndInv, ReadConfig
    PROVE  IndInv'
<1>1. /\ pc = "config" /\ pc' = "defaults" /\ Take
      /\ config' = SetBit(port.byte, 2) /\ answers' = answers
  BY DEF ReadConfig, Step, NewConfig
<1>2. /\ answers = <<>> /\ ~line.reporting /\ irq # "mouse" /\ port.byte \in Byte
      /\ "code for configuration" \notin mishaps => port.byte = Firmware
  BY <1>1 DEF IndInv, Configured, Commands, ControllerTyped, Ports
<1>3. /\ port' \in Ports /\ port'.byte = port.byte /\ port'.from = port.from
      /\ mishaps' \subseteq Mishaps /\ mishaps \subseteq mishaps'
      /\ UNCHANGED <<irq, line, keyboard, drivers, target>>
  BY <1>1, TakeTyped DEF IndInv
<1>4. config' \in Byte /\ Bit(config', 2)
  BY <1>1, <1>2, SetBitSets
<1>5. ControllerTyped'
  BY <1>1, <1>3, <1>4 DEF IndInv, ControllerTyped, Places
<1>6. KeyboardTyped' /\ MouseTyped'
  BY <1>3 DEF IndInv, KeyboardTyped, MouseTyped, keyboard, drivers
<1>7. Commands' /\ Configured'
  BY <1>1, <1>2, <1>3, <1>4 DEF IndInv, Commands, Configured, ConfigurationKept
<1>8. Skipped' /\ InStep'
  BY <1>1, <1>2, <1>3 DEF IndInv, Skipped, InStep, Pending, MouseSet, drivers
<1> QED
  BY <1>5, <1>6, <1>7, <1>8 DEF IndInv

LEMMA SendIndInv ==
    ASSUME IndInv, NEW command \in {"defaults", "enable"},
           NEW to \in {"defaultsSent", "enableSent"},
           command = "defaults" <=> to = "defaultsSent",
           Send(command, to)
    PROVE  IndInv'
<1>1. /\ pc = command /\ pc' = to /\ irq = "none"
      /\ answers' = Append(answers, command)
      /\ UNCHANGED <<controller, line, keyboard, drivers, target, mishaps>>
  BY DEF Send, Step
<1>2. UNCHANGED <<config, port, irq>>
  BY <1>1 DEF controller
<1>3. ControllerTyped' /\ KeyboardTyped' /\ MouseTyped'
  BY <1>1, <1>2 DEF IndInv, ControllerTyped, KeyboardTyped, MouseTyped, keyboard, drivers, Places
<1>4. answers \in Seq({"defaults", "enable"}) /\ Len(answers) \in 0 .. 2
  BY DEF IndInv, Commands
<1>5. /\ answers' \in Seq({"defaults", "enable"}) /\ Len(answers') = Len(answers) + 1
      /\ command = "defaults" => Len(answers) = 0
      /\ Len(answers) <= 1
  BY <1>1, <1>4 DEF IndInv, Commands
<1>6. Commands'
  BY <1>1, <1>4, <1>5 DEF Commands
<1>7. Configured' /\ Skipped' /\ InStep'
  BY <1>1, <1>2 DEF IndInv, Configured, ConfigurationKept, Skipped, InStep, Pending, MouseSet,
                    drivers
<1> QED
  BY <1>3, <1>6, <1>7 DEF IndInv

LEMMA ReadIndInv ==
    ASSUME IndInv, NEW from \in {"defaultsSent", "enableSent"},
           NEW to \in {"enable", "keyboard"},
           from = "defaultsSent" <=> to = "enable",
           Read(from, to)
    PROVE  IndInv'
<1>1. pc = from /\ pc' = to /\ Take /\ config' = config /\ answers' = answers
  BY DEF Read, Step
<1>2. /\ port' \in Ports /\ port'.byte = port.byte /\ port'.from = port.from
      /\ mishaps' \subseteq Mishaps /\ mishaps \subseteq mishaps'
      /\ UNCHANGED <<irq, line, keyboard, drivers, target>>
  BY <1>1, TakeTyped DEF IndInv
<1>3. ControllerTyped' /\ KeyboardTyped' /\ MouseTyped'
  BY <1>1, <1>2 DEF IndInv, ControllerTyped, KeyboardTyped, MouseTyped, keyboard, drivers, Places
<1>4. Commands' /\ Configured'
  BY <1>1, <1>2 DEF IndInv, Commands, Configured, ConfigurationKept
<1>5. Skipped' /\ InStep'
  BY <1>1, <1>2 DEF IndInv, Skipped, InStep, Pending, MouseSet, drivers
<1> QED
  BY <1>3, <1>4, <1>5 DEF IndInv

LEMMA SetGlobalIndInv ==
    ASSUME IndInv, NEW from \in {"keyboard", "mouse", "display"},
           NEW to \in {"mouse", "display", "done"},
           from = "display" => to = "done",
           SetGlobal(from, to)
    PROVE  IndInv'
<1>1. /\ pc = from /\ pc' = to /\ irq = "none"
      /\ UNCHANGED <<config, port, irq, answers, line, keyboard, drivers, target, mishaps>>
  BY DEF SetGlobal, Step, controller
<1>2. ControllerTyped' /\ KeyboardTyped' /\ MouseTyped'
  BY <1>1 DEF IndInv, ControllerTyped, KeyboardTyped, MouseTyped, keyboard, drivers, Places
<1>3. Commands' /\ Configured' /\ Skipped'
  BY <1>1 DEF IndInv, Commands, Configured, ConfigurationKept, Skipped, drivers
<1>4. InStep'
  <2>1. MouseSet => MouseSet'
    BY <1>1 DEF MouseSet
  <2> QED
    BY <1>1, <2>1 DEF IndInv, InStep, Pending, drivers
<1> QED
  BY <1>2, <1>3, <1>4 DEF IndInv

(***************************************************************************)
(* The devices.                                                            *)
(***************************************************************************)
LEMMA AnswerIndInv ==
    ASSUME IndInv, Answer
    PROVE  IndInv'
<1>1. /\ answers # <<>> /\ Arrive(ACK, "answer") /\ answers' = Tail(answers)
      /\ line' = [line EXCEPT !.reporting = (Head(answers) = "enable")]
      /\ mishaps' = mishaps \cup If(pc \in {"display", "done"}, "late answer")
      /\ UNCHANGED <<pc, config, keyboard, drivers, target>>
  BY DEF Answer
<1>2. pc \notin {"ask", "config", "defaults"} /\ Bit(config, 2)
  BY <1>1 DEF IndInv, Commands, Configured
<1>3. /\ port' \in Ports /\ port'.byte = ACK /\ port'.from = "answer"
      /\ irq = "none" /\ irq' = "mouse"
  <2>1. ACK \in Byte /\ FromMouse("answer")
    BY DEF ACK, Byte, FromMouse
  <2> QED
    BY <1>1, <1>2, <2>1, ArriveTyped DEF IndInv
<1>4. /\ mishaps' \subseteq Mishaps /\ mishaps \subseteq mishaps'
      /\ mishaps' \subseteq mishaps \cup {"late answer"}
      /\ MouseSet => "late answer" \in mishaps'
  BY <1>1 DEF If, IndInv, ControllerTyped, Mishaps, MouseSet
<1>5. ControllerTyped' /\ KeyboardTyped'
  BY <1>1, <1>3, <1>4 DEF IndInv, ControllerTyped, KeyboardTyped, keyboard, drivers
<1>6. line' \in Lines /\ line'.sent = line.sent
  <2> DEFINE reporting == (Head(answers) = "enable")
  <2>1. line \in Lines
    BY DEF IndInv, MouseTyped
  <2>2. line' = [line EXCEPT !.reporting = reporting]
    BY <1>1, Zenon
  <2>3. reporting \in BOOLEAN
    BY Zenon
  <2> HIDE DEF reporting
  <2>4. line' \in Lines
    BY <2>1, <2>2, <2>3 DEF Lines
  <2>5. line'.sent = line.sent
    BY <2>1, <2>2 DEF Lines
  <2> QED
    BY <2>4, <2>5
<1>7. MouseTyped'
  BY <1>1, <1>6 DEF IndInv, MouseTyped, drivers
<1>8. Commands'
  <2>1. /\ answers \in Seq({"defaults", "enable"}) /\ Len(answers) \in 0 .. 2
        /\ pc \in {"defaultsSent", "enable"} => Len(answers) <= 1
    BY DEF IndInv, Commands
  <2>2. answers # <<>> /\ answers' = Tail(answers) /\ pc' = pc
    BY <1>1
  <2>3. Tail(answers) \in Seq({"defaults", "enable"}) /\ Len(Tail(answers)) = Len(answers) - 1
    BY <2>1, <2>2, HeadTailProperties
  <2>4. Len(Tail(answers)) \in 0 .. 1
    BY <2>1, <2>3, LenProperties
  <2>5. Len(answers') \in 0 .. 2 /\ Len(answers') <= 1
    BY <2>2, <2>4
  <2>6. answers' \in Seq({"defaults", "enable"})
    BY <2>2, <2>3, Zenon
  <2> QED
    BY <1>2, <2>2, <2>5, <2>6, Zenon DEF Commands
<1>9. Configured'
  BY <1>1, <1>2, <1>4 DEF IndInv, Configured, ConfigurationKept
<1>10. Skipped' /\ InStep'
  BY <1>1, <1>3, <1>4, <1>6 DEF IndInv, Skipped, InStep, Pending, FromMouse, MouseSet, drivers
<1> QED
  BY <1>5, <1>7, <1>8, <1>9, <1>10 DEF IndInv

(* A byte leaves the mouse, and arrives or is lost.                        *)
LEMMA EmitKeeps ==
    ASSUME IndInv, NEW r \in Reports, Emit(r)
    PROVE  /\ line.reporting /\ r[line.sent + 1] \in Byte
           /\ line' \in Lines /\ line'.sent = (line.sent + 1) % 3
           /\ line'.reporting = line.reporting
           /\ pc \notin {"ask", "config"} /\ Bit(config, 2)
           /\ UNCHANGED <<pc, config, answers, held, caps, text, drivers>>
<1>1. /\ line.reporting
      /\ line' = [line EXCEPT !.report = r, !.sent = (@ + 1) % 3]
      /\ UNCHANGED <<pc, config, answers, held, caps, text, drivers>>
  BY DEF Emit
<1>2. line \in Lines /\ r \in Byte \X Byte \X Byte
  BY Ps2Assumption DEF IndInv, MouseTyped
<1>3. r[1] \in Byte /\ r[2] \in Byte /\ r[3] \in Byte
  BY <1>2
<1>4. line.sent \in {0, 1, 2}
  BY <1>2 DEF Lines
<1>5. r[line.sent + 1] \in Byte
  BY <1>3, <1>4
<1>6. line' \in Lines /\ line'.sent = (line.sent + 1) % 3 /\ line'.reporting = line.reporting
  <2> DEFINE sent == (line.sent + 1) % 3
  <2>1. sent \in 0 .. 2
    BY <1>4
  <2>2. line' = [line EXCEPT !.report = r, !.sent = sent]
    BY <1>1
  <2> HIDE DEF sent
  <2>3. [line EXCEPT !.report = r] \in Lines
    BY <1>2 DEF Lines
  <2>4. line' \in Lines
    BY <2>1, <2>2, <2>3 DEF Lines
  <2>5. line'.sent = sent /\ line'.reporting = line.reporting
    BY <2>2, <1>2 DEF Lines
  <2> QED
    BY <2>4, <2>5 DEF sent
<1>7. pc \notin {"ask", "config"} /\ Bit(config, 2)
  BY <1>1 DEF IndInv, Configured
<1> QED
  BY <1>1, <1>5, <1>6, <1>7

LEMMA ReportByteIndInv ==
    ASSUME IndInv, NEW r \in Reports, ReportByte(r)
    PROVE  IndInv'
<1> DEFINE byte == r[line.sent + 1]
<1>1. Emit(r) /\ Arrive(byte, "report") /\ mishaps' = mishaps
  BY DEF ReportByte
<1>2. /\ line.reporting /\ byte \in Byte
      /\ line' \in Lines /\ line'.sent = (line.sent + 1) % 3
      /\ line'.reporting = line.reporting
      /\ pc \notin {"ask", "config"} /\ Bit(config, 2)
      /\ UNCHANGED <<pc, config, answers, held, caps, text, drivers>>
  BY <1>1, EmitKeeps
<1> HIDE DEF byte
<1>3. /\ port' \in Ports /\ port'.from = "report" /\ irq = "none" /\ irq' = "mouse"
  <2>1. FromMouse("report")
    BY DEF FromMouse
  <2> QED
    BY <1>1, <1>2, <2>1, ArriveTyped DEF IndInv
<1>4. ControllerTyped' /\ KeyboardTyped' /\ MouseTyped'
  BY <1>1, <1>2, <1>3 DEF IndInv, ControllerTyped, KeyboardTyped, MouseTyped, drivers
<1>5. Commands' /\ Configured'
  BY <1>1, <1>2 DEF IndInv, Commands, Configured, ConfigurationKept
<1>6. Skipped'
  BY <1>2, <1>3 DEF IndInv, Skipped, FromMouse, drivers
<1>7. InStep'
  BY <1>1, <1>2, <1>3 DEF IndInv, InStep, Pending, MouseSet, drivers
<1> QED
  BY <1>4, <1>5, <1>6, <1>7 DEF IndInv

LEMMA LoseByteIndInv ==
    ASSUME IndInv, NEW r \in Reports, LoseByte(r)
    PROVE  IndInv'
<1>1. /\ Emit(r) /\ mishaps' = mishaps \cup {"lost byte"} /\ UNCHANGED <<port, irq>>
  BY DEF LoseByte
<1>2. /\ line.reporting
      /\ line' \in Lines /\ line'.reporting = line.reporting
      /\ pc \notin {"ask", "config"} /\ Bit(config, 2)
      /\ UNCHANGED <<pc, config, answers, held, caps, text, drivers>>
  BY <1>1, EmitKeeps
<1>3. ControllerTyped' /\ KeyboardTyped' /\ MouseTyped'
  BY <1>1, <1>2 DEF IndInv, ControllerTyped, KeyboardTyped, MouseTyped, drivers, Mishaps
<1>4. Commands' /\ Configured'
  BY <1>1, <1>2 DEF IndInv, Commands, Configured, ConfigurationKept
<1>5. Skipped'
  BY <1>1, <1>2 DEF IndInv, Skipped, drivers
<1>6. InStep'
  BY <1>1, <1>2 DEF IndInv, InStep, OutOfStep, MouseSet, drivers
<1> QED
  BY <1>3, <1>4, <1>5, <1>6 DEF IndInv

(* A scan code arrives.                                                    *)
LEMMA CodeIndInv ==
    ASSUME IndInv, NEW code \in Byte, Code(code), held' \subseteq Keys
    PROVE  IndInv'
<1>1. /\ Arrive(code, "keyboard")
      /\ mishaps' = mishaps \cup If(pc = "config", "code for configuration")
      /\ UNCHANGED <<pc, config, answers, line, drivers, target>>
  BY DEF Code
<1>2. /\ port' \in Ports /\ port'.from = "keyboard" /\ irq = "none"
      /\ irq' \in {"none", "keyboard"}
  BY <1>1, ArriveTyped DEF IndInv, FromMouse
<1>3. /\ mishaps' \subseteq Mishaps /\ mishaps \subseteq mishaps'
      /\ mishaps' \subseteq mishaps \cup {"code for configuration"}
      /\ pc = "config" => "code for configuration" \in mishaps'
  BY <1>1 DEF If, IndInv, ControllerTyped, Mishaps
<1>4. ControllerTyped' /\ KeyboardTyped' /\ MouseTyped'
  BY <1>1, <1>2, <1>3 DEF IndInv, ControllerTyped, KeyboardTyped, MouseTyped, drivers
<1>5. Commands' /\ Configured'
  BY <1>1, <1>2, <1>3 DEF IndInv, Commands, Configured, ConfigurationKept
<1>6. Skipped' /\ InStep'
  BY <1>1, <1>2, <1>3 DEF IndInv, Skipped, InStep, Pending, OutOfStep, MouseSet, drivers
<1> QED
  BY <1>4, <1>5, <1>6 DEF IndInv

LEMMA KeyDownIndInv ==
    ASSUME IndInv, NEW key \in Keys, KeyDown(key)
    PROVE  IndInv'
<1>1. Code(key) /\ held' \subseteq Keys
  BY DEF KeyDown, IndInv, KeyboardTyped
<1> QED
  BY <1>1, KeyCodes, CodeIndInv

LEMMA KeyUpIndInv ==
    ASSUME IndInv, NEW key \in Keys, KeyUp(key)
    PROVE  IndInv'
<1>1. Code(key + KEYUP_OFFSET) /\ held' \subseteq Keys
  BY DEF KeyUp, IndInv, KeyboardTyped
<1> QED
  BY <1>1, KeyCodes, CodeIndInv

(***************************************************************************)
(* The handlers.                                                           *)
(***************************************************************************)
LEMMA KBHandlerIndInv ==
    ASSUME IndInv, KBHandler
    PROVE  IndInv'
<1>1. /\ irq = "keyboard" /\ irq' = "none"
      /\ port' = [port EXCEPT !.full = FALSE]
      /\ kb' = IF KeyboardSet THEN KeyboardHandle(kb, port.byte) ELSE kb
      /\ mishaps' = mishaps \cup If(~KeyboardSet /\ port.from = "keyboard", "missed code")
      /\ UNCHANGED <<pc, config, answers, line, keyboard, skipPacket, mouse, target>>
  BY DEF KBHandler
<1>2. port' \in Ports /\ port'.byte = port.byte /\ port'.from = port.from
  BY <1>1 DEF IndInv, ControllerTyped, Ports
<1>3. /\ mishaps' \subseteq Mishaps /\ mishaps \subseteq mishaps'
      /\ mishaps' \subseteq mishaps \cup {"missed code"}
  BY <1>1 DEF If, IndInv, ControllerTyped, Mishaps
<1>4. KeyboardTyped'
  <2>1. held' = held
    BY <1>1 DEF keyboard
  <2>2. CASE KeyboardSet
    <3>1. kb' = KeyboardHandle(kb, port.byte)
      BY <1>1, <2>2
    <3> QED
      BY <2>1, <3>1, KeyboardHandleTyped DEF IndInv, KeyboardTyped
  <2>3. CASE ~KeyboardSet
    <3>1. kb' = kb
      BY <1>1, <2>3
    <3> QED
      BY <2>1, <3>1 DEF IndInv, KeyboardTyped
  <2> QED
    BY <2>2, <2>3
<1>5. ControllerTyped' /\ MouseTyped'
  BY <1>1, <1>2, <1>3 DEF IndInv, ControllerTyped, MouseTyped
<1>6. Commands' /\ Configured'
  BY <1>1, <1>2, <1>3 DEF IndInv, Commands, Configured, ConfigurationKept
<1>7. Skipped' /\ InStep'
  BY <1>1, <1>2, <1>3 DEF IndInv, Skipped, InStep, Pending, OutOfStep, MouseSet
<1> QED
  BY <1>4, <1>5, <1>6, <1>7 DEF IndInv

LEMMA MSHandlerMoves ==
    ASSUME IndInv, MSHandler, MouseSet
    PROVE  \E size \in Sizes : Handled(mouse, size, port.byte, mouse')
<1>1. PICK size \in Sizes :
        mouse' = IF ~MouseSet THEN mouse
                 ELSE IF skipPacket THEN HandlePacket(mouse, size)
                 ELSE Store(HandlePacket(mouse, size), port.byte)
  BY DEF MSHandler
<1>2. mouse \in Mice /\ port.byte \in Byte
  BY DEF IndInv, MouseTyped, ControllerTyped, Ports
<1>3. size \in (Nat \ {0}) \X (Nat \ {0})
  BY Ps2Assumption DEF Sizes
<1> DEFINE n == mouse'
<1>4. n = IF skipPacket THEN HandlePacket(mouse, size)
          ELSE Store(HandlePacket(mouse, size), port.byte)
  BY <1>1
<1> HIDE DEF n
<1>5. Handled(mouse, size, port.byte, n)
  BY <1>2, <1>3, <1>4, HandlerMoves
<1> QED
  BY <1>5 DEF n

LEMMA MSHandlerIndInv ==
    ASSUME IndInv, MSHandler
    PROVE  IndInv'
<1>1. /\ irq = "mouse" /\ irq' = "none"
      /\ port' = [port EXCEPT !.full = FALSE]
      /\ skipPacket' = FALSE
      /\ mishaps' = mishaps \cup If(~MouseSet /\ port.from = "report", "early report")
                            \cup If(mouse.PacketReady /\ ~DisplaySet, "no display")
      /\ UNCHANGED <<pc, config, answers, line, keyboard, kb, target>>
  BY DEF MSHandler
<1>2. port' \in Ports /\ port'.byte = port.byte /\ port'.from = port.from
  BY <1>1 DEF IndInv, ControllerTyped, Ports
<1>3. /\ mishaps' \subseteq Mishaps /\ mishaps \subseteq mishaps'
      /\ mishaps' \subseteq mishaps \cup {"early report", "no display"}
      /\ ~MouseSet /\ port.from = "report" => "early report" \in mishaps'
  BY <1>1 DEF If, IndInv, ControllerTyped, Mishaps
<1>4. /\ mouse' \in Mice
      /\ mouse'.Cycle = IF skipPacket \/ ~MouseSet THEN mouse.Cycle ELSE (mouse.Cycle + 1) % 3
  <2>1. CASE MouseSet
    BY <2>1, MSHandlerMoves DEF Handled
  <2>2. CASE ~MouseSet
    <3>1. mouse' = mouse
      BY <2>2 DEF MSHandler
    <3> QED
      BY <2>2, <3>1 DEF IndInv, MouseTyped
  <2> QED
    BY <2>1, <2>2
<1>5. ControllerTyped' /\ KeyboardTyped' /\ MouseTyped'
  BY <1>1, <1>2, <1>3, <1>4 DEF IndInv, ControllerTyped, KeyboardTyped, MouseTyped, keyboard
<1>6. Commands' /\ Configured'
  BY <1>1, <1>2, <1>3 DEF IndInv, Commands, Configured, ConfigurationKept
<1>7. Skipped'
  BY <1>1 DEF Skipped
<1>8. InStep'
  <2>1. MouseSet' = MouseSet
    BY <1>1 DEF MouseSet
  <2>2. port.from \in {"answer", "report"}
    BY <1>1 DEF IndInv, Skipped, FromMouse
  <2>3. CASE mishaps' \cap OutOfStep = {}
    <3>1. mishaps \cap OutOfStep = {} /\ "late answer" \notin mishaps
      BY <1>3, <2>3 DEF OutOfStep
    <3>2. port.from = "report" => MouseSet /\ ~skipPacket
      BY <1>1, <1>3, <2>3 DEF OutOfStep, IndInv, Skipped
    <3>3. port.from = "answer" => ~MouseSet
      BY <1>1, <3>1 DEF IndInv, InStep
    <3> QED
      BY <1>1, <1>4, <2>1, <2>2, <3>1, <3>2, <3>3 DEF IndInv, InStep, Pending
  <2>4. CASE mishaps' \cap OutOfStep # {}
    BY <1>1, <1>4, <2>1, <2>4 DEF IndInv, InStep
  <2> QED
    BY <2>3, <2>4
<1> QED
  BY <1>5, <1>6, <1>7, <1>8 DEF IndInv

LEMMA StepIndInv == IndInv /\ [Next]_vars => IndInv'
<1> SUFFICES ASSUME IndInv, [Next]_vars PROVE IndInv'
  OBVIOUS
<1>1. CASE InitDrivers
  <2>1. CASE AskConfig
    BY <2>1, AskConfigIndInv
  <2>2. CASE ReadConfig
    BY <2>2, ReadConfigIndInv
  <2>3. CASE Send("defaults", "defaultsSent") \/ Send("enable", "enableSent")
    BY <2>3, SendIndInv
  <2>4. CASE Read("defaultsSent", "enable") \/ Read("enableSent", "keyboard")
    BY <2>4, ReadIndInv
  <2>5. CASE \/ SetGlobal("keyboard", "mouse") \/ SetGlobal("mouse", "display")
             \/ SetGlobal("display", "done")
    BY <2>5, SetGlobalIndInv
  <2> QED
    BY <1>1, <2>1, <2>2, <2>3, <2>4, <2>5 DEF InitDrivers
<1>2. CASE KBHandler
  BY <1>2, KBHandlerIndInv
<1>3. CASE MSHandler
  BY <1>3, MSHandlerIndInv
<1>4. CASE Answer
  BY <1>4, AnswerIndInv
<1>5. CASE \E r \in Reports : ReportByte(r) \/ LoseByte(r)
  BY <1>5, ReportByteIndInv, LoseByteIndInv
<1>6. CASE \E key \in Keys : KeyDown(key) \/ KeyUp(key)
  BY <1>6, KeyDownIndInv, KeyUpIndInv
<1>7. CASE UNCHANGED vars
  BY <1>7 DEF vars, controller, keyboard, drivers, IndInv, ControllerTyped, KeyboardTyped,
              MouseTyped, Commands, Configured, ConfigurationKept, Skipped, InStep, Pending,
              MouseSet
<1> QED
  BY <1>1, <1>2, <1>3, <1>4, <1>5, <1>6, <1>7 DEF Next

LEMMA AlwaysIndInv == Spec => []IndInv
BY InitIndInv, StepIndInv, PTL DEF Spec

-----------------------------------------------------------------------------
(***************************************************************************)
(* The theorems.                                                           *)
(***************************************************************************)
(* The types; no key runs over the end of the keyboard's buffer, and no    *)
(* byte over the end of a packet.                                          *)
THEOREM DriversTypeCorrect == Spec => []TypeOK
<1>1. IndInv => TypeOK
  <2> SUFFICES ASSUME IndInv PROVE TypeOK
    OBVIOUS
  <2>1. /\ config \in Byte /\ port.byte \in Byte /\ port.full \in BOOLEAN
        /\ irq \in {"none", "keyboard", "mouse"} /\ mishaps \subseteq Mishaps
    BY DEF IndInv, ControllerTyped, Ports
  <2>2. mouse.Cycle \in 0 .. 2 /\ mouse.Packet \in [0 .. 2 -> Byte]
    BY DEF IndInv, MouseTyped, Mice
  <2>3. Len(answers) \in 0 .. 2
    BY DEF IndInv, Commands
  <2> QED
    BY <2>1, <2>2, <2>3 DEF TypeOK, IndInv, KeyboardTyped
<1> QED
  BY <1>1, AlwaysIndInv, PTL

(* Packets begin where reports begin, unless a report comes before         *)
(* GlobalMouse, an acknowledgement after it, or a byte is lost.            *)
THEOREM PacketsStayInStep == Spec => []PacketsInStep
<1>1. IndInv => PacketsInStep
  BY DEF IndInv, InStep, Pending, PacketsInStep
<1> QED
  BY <1>1, AlwaysIndInv, PTL

(* Mouse::Init keeps the controller's configuration but for the mouse's    *)
(* interrupt, unless a key is struck between its command and its read.     *)
THEOREM ConfigurationStays == Spec => []ConfigurationKept
<1>1. IndInv => ConfigurationKept
  BY DEF IndInv, Configured
<1> QED
  BY <1>1, AlwaysIndInv, PTL

(* Whatever bytes arrive, in step or not, a pointer that moves stays on    *)
(* the display.                                                            *)
THEOREM PointerStaysOnDisplay == Spec => PointerOnDisplay
<1> DEFINE Jumps == <<mouse.X, mouse.Y>>' # <<mouse.X, mouse.Y>>
           On == mouse'.X \in 0 .. Width - 1 /\ mouse'.Y \in 0 .. Height - 1
<1>1. IndInv /\ [Next]_vars => [DisplaySet /\ Jumps => On]_vars
  <2> SUFFICES ASSUME IndInv, Next, DisplaySet, Jumps PROVE On
    OBVIOUS
  <2>1. mouse' # mouse
    OBVIOUS
  <2>2. MSHandler
    <3>1. InitDrivers => mouse' = mouse
      <4>1. Take => mouse' = mouse
        BY DEF Take, drivers
      <4> QED
        BY <4>1 DEF InitDrivers, AskConfig, ReadConfig, Send, Read, SetGlobal, drivers
    <3>2. KBHandler \/ Answer => mouse' = mouse
      BY DEF KBHandler, Answer, drivers
    <3>3. ASSUME NEW r \in Reports
          PROVE  ReportByte(r) \/ LoseByte(r) => mouse' = mouse
      BY DEF ReportByte, LoseByte, Emit, drivers
    <3>4. ASSUME NEW key \in Keys
          PROVE  KeyDown(key) \/ KeyUp(key) => mouse' = mouse
      BY DEF KeyDown, KeyUp, Code, drivers
    <3> QED
      BY <2>1, <3>1, <3>2, <3>3, <3>4 DEF Next
  <2>3. PICK size \in Sizes : Handled(mouse, size, port.byte, mouse')
    BY <2>2, MSHandlerMoves DEF MouseSet, DisplaySet
  <2>4. size = <<Width, Height>>
    BY <2>3 DEF Sizes
  <2>5. size[1] = Width /\ size[2] = Height
    BY <2>4
  <2>6. <<mouse'.X, mouse'.Y>> # <<mouse.X, mouse.Y>>
    OBVIOUS
  <2> QED
    BY <2>3, <2>5, <2>6 DEF Handled
<1> QED
  BY <1>1, AlwaysIndInv, PTL DEF Spec, PointerOnDisplay

-----------------------------------------------------------------------------
(***************************************************************************)
(* The keyboard's buffer and what was typed.                               *)
(***************************************************************************)
Letters(buffer, n) == [i \in 1 .. n |-> buffer[i - 1]]

LEMMA LettersIs ==
    ASSUME NEW buffer, NEW n \in Nat, NEW S, \A i \in 1 .. n : buffer[i - 1] \in S
    PROVE  /\ Letters(buffer, n) \in Seq(S) /\ Len(Letters(buffer, n)) = n
           /\ \A i \in 1 .. n : Letters(buffer, n)[i] = buffer[i - 1]
           /\ Letters(buffer, n) = <<>> <=> n = 0
<1> DEFINE t == Letters(buffer, n)
<1>1. t \in [1 .. n -> S] /\ \A i \in 1 .. n : t[i] = buffer[i - 1]
  BY DEF Letters
<1> HIDE DEF t
<1>2. t \in Seq(S) /\ Len(t) = n
  BY <1>1
<1>3. t = <<>> <=> n = 0
  BY <1>2
<1> QED
  BY <1>1, <1>2, <1>3 DEF t

LEMMA LettersAppend ==
    ASSUME NEW old, NEW new, NEW n \in Nat, NEW c,
           \A i \in 1 .. n : new[i - 1] = old[i - 1], new[n] = c
    PROVE  Letters(new, n + 1) = Append(Letters(old, n), c)
<1> DEFINE S == {old[i - 1] : i \in 1 .. n} \cup {c}
           s == Letters(old, n)
           t == Letters(new, n + 1)
           u == Append(s, c)
<1>1. c \in S /\ \A i \in 1 .. n : old[i - 1] \in S
  OBVIOUS
<1>2. \A i \in 1 .. n + 1 : new[i - 1] \in S
  <2> SUFFICES ASSUME NEW i \in 1 .. n + 1 PROVE new[i - 1] \in S
    OBVIOUS
  <2>1. i \in 1 .. n \/ (i - 1 = n)
    OBVIOUS
  <2> HIDE DEF S
  <2> QED
    BY <1>1, <2>1
<1> HIDE DEF S
<1>3. s \in Seq(S) /\ Len(s) = n /\ \A i \in 1 .. n : s[i] = old[i - 1]
  BY <1>1, LettersIs
<1>4. t \in Seq(S) /\ Len(t) = n + 1 /\ \A i \in 1 .. n + 1 : t[i] = new[i - 1]
  <2>1. n + 1 \in Nat
    OBVIOUS
  <2> QED
    BY <1>2, <2>1, LettersIs
<1> HIDE DEF s, t
<1>5. /\ u \in Seq(S) /\ Len(u) = Len(s) + 1
      /\ \A i \in 1 .. Len(s) : u[i] = s[i]
      /\ u[Len(s) + 1] = c
  BY <1>1, <1>3, AppendProperties
<1> HIDE DEF u
<1>6. ASSUME NEW i \in 1 .. n + 1 PROVE t[i] = u[i]
  <2>1. i \in 1 .. n \/ (i = n + 1 /\ i - 1 = n)
    OBVIOUS
  <2>2. CASE i \in 1 .. n
    BY <1>3, <1>4, <1>5, <2>2
  <2>3. CASE i = n + 1 /\ i - 1 = n
    BY <1>3, <1>4, <1>5, <2>3
  <2> QED
    BY <2>1, <2>2, <2>3
<1>7. t = u
  <2>1. Len(t) = Len(u) /\ \A i \in 1 .. Len(t) : t[i] = u[i]
    BY <1>3, <1>4, <1>5, <1>6
  <2> QED
    BY <1>4, <1>5, <2>1, SeqEqual
<1> QED
  BY <1>7 DEF s, t, u

LEMMA LettersCut ==
    ASSUME NEW old, NEW new, NEW n \in Nat,
           \A i \in 1 .. n : new[i - 1] = old[i - 1]
    PROVE  Letters(new, n) = SubSeq(Letters(old, n + 1), 1, Len(Letters(old, n + 1)) - 1)
<1> DEFINE S == {old[i - 1] : i \in 1 .. n + 1}
           s == Letters(old, n + 1)
           t == Letters(new, n)
           u == SubSeq(s, 1, n)
<1>1. (\A i \in 1 .. n + 1 : old[i - 1] \in S) /\ n + 1 \in Nat /\ (n + 1) - 1 = n
  OBVIOUS
<1>2. \A i \in 1 .. n : new[i - 1] \in S /\ i \in 1 .. n + 1
  OBVIOUS
<1> HIDE DEF S
<1>3. s \in Seq(S) /\ Len(s) = n + 1 /\ \A i \in 1 .. n + 1 : s[i] = old[i - 1]
  BY <1>1, LettersIs
<1>4. t \in Seq(S) /\ Len(t) = n /\ \A i \in 1 .. n : t[i] = new[i - 1]
  BY <1>2, LettersIs
<1> HIDE DEF s, t
<1>5. /\ u \in Seq(S) /\ Len(u) = IF 1 <= n THEN (n - 1) + 1 ELSE 0
      /\ \A i \in 1 .. (n - 1) + 1 : u[i] = s[(1 + i) - 1]
  <2>1. \A i \in 1 .. n : s[i] \in S
    BY <1>1, <1>2, <1>3
  <2> QED
    BY <2>1, SubSeqProperties
<1> HIDE DEF u
<1>6. Len(u) = n /\ \A i \in 1 .. n : u[i] = t[i]
  <2>1. Len(u) = n
    BY <1>5
  <2>2. ASSUME NEW i \in 1 .. n PROVE u[i] = t[i]
    <3>1. i \in 1 .. (n - 1) + 1 /\ (1 + i) - 1 = i /\ i \in 1 .. n + 1
      OBVIOUS
    <3> QED
      BY <1>3, <1>4, <1>5, <3>1
  <2> QED
    BY <2>1, <2>2
<1>7. t = u
  BY <1>4, <1>5, <1>6, SeqEqual
<1>8. Len(s) - 1 = n
  BY <1>1, <1>3
<1> QED
  BY <1>7, <1>8 DEF s, t, u

(* The keyboard is as the keys struck have left it.                        *)
Agrees(k) ==
    /\ k.LeftShift = (KEY_LEFTSHIFT \in held) /\ k.RightShift = (KEY_RIGHTSHIFT \in held)
    /\ k.CapsLock = caps /\ Letters(k.buffer, k.bufferIndex) = text

(* A scan code is in the port, or its handler has yet to read it.          *)
CodeWaits == port.from = "keyboard" /\ (irq = "keyboard" \/ port.full)

Buffered ==
    /\ irq = "keyboard" /\ port.from # "keyboard" => pc \in {"config", "defaults"}
    /\ "missed code" \notin mishaps =>
         IF CodeWaits THEN Agrees(KeyboardHandle(kb, port.byte)) ELSE Agrees(kb)

LEMMA LayoutTyped ==
    /\ BufferSize \in Nat /\ BufferSize > 1
    /\ \A key \in DOMAIN ScanCodeSet1 :
         /\ key \in 2 .. 57 /\ key \notin {KEY_BACKSPACE, KEY_LEFTSHIFT, KEY_RIGHTSHIFT}
         /\ ScanCodeSet1[key] # NUL /\ ScanCodeUpperSet1[key] # NUL
         /\ ScanCodeCapsSet1[key] # NUL
BY Ps2Assumption DEF KEY_SPACE, Shifts

Codes == {KEY_BACKSPACE, KEY_LEFTSHIFT, KEY_RIGHTSHIFT, KEY_LEFTSHIFT + KEYUP_OFFSET,
          KEY_RIGHTSHIFT + KEYUP_OFFSET, KEY_CAPSLOCK}

LEMMA HandleOther ==
    ASSUME NEW code, code \notin Codes
    PROVE  KeyboardHandle(kb, code) =
             LET translated == Translate(code, UpperCase(kb), kb.CapsLock)
             IN  IF translated = NUL THEN kb
                 ELSE [kb EXCEPT !.buffer[Slot(kb)] = translated, !.bufferIndex = Slot(kb) + 1]
BY DEF KeyboardHandle, Codes

LEMMA HandleKey ==
    /\ KeyboardHandle(kb, KEY_BACKSPACE) =
         IF kb.bufferIndex = 0 THEN kb
         ELSE [kb EXCEPT !.bufferIndex = @ - 1, !.buffer[kb.bufferIndex - 1] = NUL]
    /\ KeyboardHandle(kb, KEY_LEFTSHIFT) = [kb EXCEPT !.LeftShift = TRUE]
    /\ KeyboardHandle(kb, KEY_RIGHTSHIFT) = [kb EXCEPT !.RightShift = TRUE]
    /\ KeyboardHandle(kb, KEY_LEFTSHIFT + KEYUP_OFFSET) = [kb EXCEPT !.LeftShift = FALSE]
    /\ KeyboardHandle(kb, KEY_RIGHTSHIFT + KEYUP_OFFSET) = [kb EXCEPT !.RightShift = FALSE]
    /\ KeyboardHandle(kb, KEY_CAPSLOCK) = [kb EXCEPT !.CapsLock = ~@]
<1>1. KeyboardHandle(kb, KEY_BACKSPACE) =
        IF kb.bufferIndex = 0 THEN kb
        ELSE [kb EXCEPT !.bufferIndex = @ - 1, !.buffer[kb.bufferIndex - 1] = NUL]
  BY DEF KeyboardHandle, KEY_BACKSPACE, KEY_LEFTSHIFT, KEY_RIGHTSHIFT, KEY_CAPSLOCK, KEYUP_OFFSET
<1>2. KeyboardHandle(kb, KEY_LEFTSHIFT) = [kb EXCEPT !.LeftShift = TRUE]
  BY DEF KeyboardHandle, KEY_BACKSPACE, KEY_LEFTSHIFT, KEY_RIGHTSHIFT, KEY_CAPSLOCK, KEYUP_OFFSET
<1>3. KeyboardHandle(kb, KEY_RIGHTSHIFT) = [kb EXCEPT !.RightShift = TRUE]
  BY DEF KeyboardHandle, KEY_BACKSPACE, KEY_LEFTSHIFT, KEY_RIGHTSHIFT, KEY_CAPSLOCK, KEYUP_OFFSET
<1>4. KeyboardHandle(kb, KEY_LEFTSHIFT + KEYUP_OFFSET) = [kb EXCEPT !.LeftShift = FALSE]
  BY DEF KeyboardHandle, KEY_BACKSPACE, KEY_LEFTSHIFT, KEY_RIGHTSHIFT, KEY_CAPSLOCK, KEYUP_OFFSET
<1>5. KeyboardHandle(kb, KEY_RIGHTSHIFT + KEYUP_OFFSET) = [kb EXCEPT !.RightShift = FALSE]
  BY DEF KeyboardHandle, KEY_BACKSPACE, KEY_LEFTSHIFT, KEY_RIGHTSHIFT, KEY_CAPSLOCK, KEYUP_OFFSET
<1>6. KeyboardHandle(kb, KEY_CAPSLOCK) = [kb EXCEPT !.CapsLock = ~@]
  BY DEF KeyboardHandle, KEY_BACKSPACE, KEY_LEFTSHIFT, KEY_RIGHTSHIFT, KEY_CAPSLOCK, KEYUP_OFFSET
<1> QED
  BY <1>1, <1>2, <1>3, <1>4, <1>5, <1>6

LEMMA BackspaceAgrees ==
    ASSUME KeyboardTyped, Agrees(kb),
           text' = Typed(KEY_BACKSPACE), held' = held \cup {KEY_BACKSPACE}, caps' = caps
    PROVE  LET k == KeyboardHandle(kb, KEY_BACKSPACE)
           IN  /\ k.LeftShift = (KEY_LEFTSHIFT \in held')
               /\ k.RightShift = (KEY_RIGHTSHIFT \in held')
               /\ k.CapsLock = caps' /\ Letters(k.buffer, k.bufferIndex) = text'
<1> DEFINE k == KeyboardHandle(kb, KEY_BACKSPACE)
           n == kb.bufferIndex
           S == {kb.buffer[i - 1] : i \in 1 .. n}
<1>1. /\ n \in Nat /\ n \in 0 .. BufferSize - 1 /\ BufferSize \in Nat
      /\ DOMAIN kb.buffer = 0 .. BufferSize - 1
      /\ DOMAIN kb = {"LeftShift", "RightShift", "CapsLock", "buffer", "bufferIndex"}
  BY LayoutTyped DEF KeyboardTyped
<1>2. /\ kb.LeftShift = (KEY_LEFTSHIFT \in held) /\ kb.RightShift = (KEY_RIGHTSHIFT \in held)
      /\ kb.CapsLock = caps /\ Letters(kb.buffer, n) = text
  BY DEF Agrees
<1>3. (KEY_LEFTSHIFT \in held' <=> KEY_LEFTSHIFT \in held)
      /\ (KEY_RIGHTSHIFT \in held' <=> KEY_RIGHTSHIFT \in held)
  BY DEF KEY_LEFTSHIFT, KEY_RIGHTSHIFT, KEY_BACKSPACE
<1>4. \A i \in 1 .. n : kb.buffer[i - 1] \in S
  OBVIOUS
<1>5. text = <<>> <=> n = 0
  <2> HIDE DEF S
  <2> QED
    BY <1>1, <1>2, <1>4, LettersIs
<1>6. text' = IF text = <<>> THEN text ELSE SubSeq(text, 1, Len(text) - 1)
  BY DEF Typed
<1>7. CASE n = 0
  <2>1. k = kb
    BY <1>7, HandleKey
  <2> QED
    BY <1>2, <1>3, <1>5, <1>6, <1>7, <2>1
<1>8. CASE n # 0
  <2> DEFINE m == n - 1
             old == kb.buffer
             new == [old EXCEPT ![m] = NUL]
  <2>1. k = [kb EXCEPT !.bufferIndex = m, !.buffer = new]
    BY <1>1, <1>8, HandleKey
  <2>2. m \in Nat /\ m + 1 = n /\ m \in DOMAIN old
    BY <1>1, <1>8
  <2>3. \A i \in 1 .. m : new[i - 1] = old[i - 1]
    <3> SUFFICES ASSUME NEW i \in 1 .. m PROVE new[i - 1] = old[i - 1]
      OBVIOUS
    <3>1. i - 1 # m /\ i - 1 \in DOMAIN old
      BY <1>1, <2>2
    <3> QED
      BY <3>1
  <2> HIDE DEF m, new, k
  <2>4. /\ k.LeftShift = kb.LeftShift /\ k.RightShift = kb.RightShift
        /\ k.CapsLock = kb.CapsLock /\ k.bufferIndex = m /\ k.buffer = new
    BY <1>1, <2>1
  <2>5. Letters(new, m) = SubSeq(Letters(old, m + 1), 1, Len(Letters(old, m + 1)) - 1)
    BY <2>2, <2>3, LettersCut
  <2>6. Letters(k.buffer, k.bufferIndex) = text'
    BY <1>2, <1>5, <1>6, <1>8, <2>2, <2>4, <2>5
  <2> QED
    BY <1>2, <1>3, <2>4, <2>6 DEF k
<1> QED
  BY <1>7, <1>8

LEMMA ModifierAgrees ==
    ASSUME KeyboardTyped, Agrees(kb), NEW key \in Shifts \cup {KEY_CAPSLOCK},
           text' = Typed(key), held' = held \cup {key},
           caps' = IF key = KEY_CAPSLOCK THEN ~caps ELSE caps
    PROVE  LET k == KeyboardHandle(kb, key)
           IN  /\ k.LeftShift = (KEY_LEFTSHIFT \in held')
               /\ k.RightShift = (KEY_RIGHTSHIFT \in held')
               /\ k.CapsLock = caps' /\ Letters(k.buffer, k.bufferIndex) = text'
<1> DEFINE k == KeyboardHandle(kb, key)
<1>1. DOMAIN kb = {"LeftShift", "RightShift", "CapsLock", "buffer", "bufferIndex"}
  BY DEF KeyboardTyped
<1>2. /\ kb.LeftShift = (KEY_LEFTSHIFT \in held) /\ kb.RightShift = (KEY_RIGHTSHIFT \in held)
      /\ kb.CapsLock = caps /\ Letters(kb.buffer, kb.bufferIndex) = text
  BY DEF Agrees
<1>3. text' = text
  <2>1. key \notin DOMAIN ScanCodeSet1 /\ key # KEY_BACKSPACE
    BY LayoutTyped DEF Shifts, KEY_CAPSLOCK, KEY_LEFTSHIFT, KEY_RIGHTSHIFT, KEY_BACKSPACE
  <2> QED
    BY <2>1 DEF Typed
<1>4. CASE key = KEY_LEFTSHIFT
  <2>1. k = [kb EXCEPT !.LeftShift = TRUE]
    BY <1>4, HandleKey
  <2>2. /\ caps' = caps /\ (KEY_LEFTSHIFT \in held') = TRUE
        /\ (KEY_RIGHTSHIFT \in held') = (KEY_RIGHTSHIFT \in held)
    BY <1>4 DEF KEY_LEFTSHIFT, KEY_RIGHTSHIFT, KEY_CAPSLOCK
  <2> HIDE DEF k
  <2>3. /\ k.LeftShift = TRUE /\ k.RightShift = kb.RightShift /\ k.CapsLock = kb.CapsLock
        /\ k.bufferIndex = kb.bufferIndex /\ k.buffer = kb.buffer
    BY <1>1, <2>1
  <2> QED
    BY <1>2, <1>3, <2>2, <2>3 DEF k
<1>5. CASE key = KEY_RIGHTSHIFT
  <2>1. k = [kb EXCEPT !.RightShift = TRUE]
    BY <1>5, HandleKey
  <2>2. /\ caps' = caps /\ (KEY_RIGHTSHIFT \in held') = TRUE
        /\ (KEY_LEFTSHIFT \in held') = (KEY_LEFTSHIFT \in held)
    BY <1>5 DEF KEY_LEFTSHIFT, KEY_RIGHTSHIFT, KEY_CAPSLOCK
  <2> HIDE DEF k
  <2>3. /\ k.RightShift = TRUE /\ k.LeftShift = kb.LeftShift /\ k.CapsLock = kb.CapsLock
        /\ k.bufferIndex = kb.bufferIndex /\ k.buffer = kb.buffer
    BY <1>1, <2>1
  <2> QED
    BY <1>2, <1>3, <2>2, <2>3 DEF k
<1>6. CASE key = KEY_CAPSLOCK
  <2>1. k = [kb EXCEPT !.CapsLock = ~@]
    BY <1>6, HandleKey
  <2>2. /\ caps' = ~caps
        /\ (KEY_LEFTSHIFT \in held') = (KEY_LEFTSHIFT \in held)
        /\ (KEY_RIGHTSHIFT \in held') = (KEY_RIGHTSHIFT \in held)
    BY <1>6 DEF KEY_LEFTSHIFT, KEY_RIGHTSHIFT, KEY_CAPSLOCK
  <2> HIDE DEF k
  <2>3. /\ k.RightShift = kb.RightShift /\ k.LeftShift = kb.LeftShift
        /\ k.CapsLock = ~kb.CapsLock
        /\ k.bufferIndex = kb.bufferIndex /\ k.buffer = kb.buffer
    BY <1>1, <2>1
  <2> QED
    BY <1>2, <1>3, <2>2, <2>3 DEF k
<1> QED
  BY <1>4, <1>5, <1>6 DEF Shifts

LEMMA LetterAgrees ==
    ASSUME KeyboardTyped, Agrees(kb), NEW key \in DOMAIN ScanCodeSet1,
           text' = Typed(key), held' = held \cup {key}, caps' = caps
    PROVE  LET k == KeyboardHandle(kb, key)
           IN  /\ k.LeftShift = (KEY_LEFTSHIFT \in held')
               /\ k.RightShift = (KEY_RIGHTSHIFT \in held')
               /\ k.CapsLock = caps' /\ Letters(k.buffer, k.bufferIndex) = text'
<1> DEFINE k == KeyboardHandle(kb, key)
           n == kb.bufferIndex
           old == kb.buffer
           S == {old[i - 1] : i \in 1 .. n}
           c == Character(key)
           length == Len(text)
           slot == Slot(kb)
           kept == IF length + 1 >= BufferSize THEN <<>> ELSE text
           new == [old EXCEPT ![slot] = c]
<1>1. /\ n \in Nat /\ n \in 0 .. BufferSize - 1 /\ BufferSize \in Nat /\ BufferSize > 1
      /\ DOMAIN old = 0 .. BufferSize - 1
      /\ DOMAIN kb = {"LeftShift", "RightShift", "CapsLock", "buffer", "bufferIndex"}
  BY LayoutTyped DEF KeyboardTyped
<1>2. /\ kb.LeftShift = (KEY_LEFTSHIFT \in held) /\ kb.RightShift = (KEY_RIGHTSHIFT \in held)
      /\ kb.CapsLock = caps /\ Letters(old, n) = text
  BY DEF Agrees
<1>3. /\ key \in 2 .. 57 /\ key \notin {KEY_BACKSPACE, KEY_LEFTSHIFT, KEY_RIGHTSHIFT}
      /\ ScanCodeSet1[key] # NUL /\ ScanCodeUpperSet1[key] # NUL /\ ScanCodeCapsSet1[key] # NUL
  BY LayoutTyped
<1>4. /\ (KEY_LEFTSHIFT \in held') = (KEY_LEFTSHIFT \in held)
      /\ (KEY_RIGHTSHIFT \in held') = (KEY_RIGHTSHIFT \in held)
  BY <1>3
<1>5. key \notin Codes
  BY <1>3 DEF Codes, KEY_LEFTSHIFT, KEY_RIGHTSHIFT, KEY_CAPSLOCK, KEYUP_OFFSET
<1>6. Translate(key, UpperCase(kb), kb.CapsLock) = c /\ c # NUL
  <2>1. UpperCase(kb) <=> held \cap Shifts # {}
    BY <1>2 DEF UpperCase, Shifts
  <2>2. Translate(key, UpperCase(kb), kb.CapsLock) = c
    BY <1>2, <2>1 DEF Translate, Character
  <2>3. c # NUL
    BY <1>3 DEF Character
  <2> QED
    BY <2>2, <2>3
<1>7. text' = Append(kept, c)
  BY <1>3 DEF Typed
<1>8. k = [kb EXCEPT !.buffer[slot] = c, !.bufferIndex = slot + 1]
  BY <1>5, <1>6, HandleOther
<1>9. length = n
  <2>1. \A i \in 1 .. n : old[i - 1] \in S
    OBVIOUS
  <2> HIDE DEF S
  <2>2. Len(Letters(old, n)) = n
    BY <1>1, <2>1, LettersIs
  <2> QED
    BY <1>2, <2>2
<1>10. slot = (IF n + 1 >= BufferSize THEN 0 ELSE n) /\ slot \in 0 .. BufferSize - 2
  BY <1>1 DEF Slot
<1> HIDE DEF k, c, length, slot, new
<1>11. k = [kb EXCEPT !.buffer = new, !.bufferIndex = slot + 1]
  BY <1>1, <1>8 DEF new
<1>12. /\ k.LeftShift = kb.LeftShift /\ k.RightShift = kb.RightShift
       /\ k.CapsLock = kb.CapsLock /\ k.bufferIndex = slot + 1 /\ k.buffer = new
  BY <1>1, <1>11
<1>13. slot \in Nat /\ new[slot] = c /\ \A i \in 1 .. slot : new[i - 1] = old[i - 1]
  <2>1. slot \in DOMAIN old /\ slot \in Nat
    BY <1>1, <1>10
  <2>2. ASSUME NEW i \in 1 .. slot PROVE new[i - 1] = old[i - 1]
    <3>1. i - 1 # slot /\ i - 1 \in DOMAIN old
      BY <1>1, <1>10, <2>1
    <3> QED
      BY <3>1 DEF new
  <2> QED
    BY <2>1, <2>2 DEF new
<1>14. Letters(new, slot + 1) = Append(Letters(old, slot), c)
  BY <1>13, LettersAppend
<1>15. Letters(old, slot) = kept
  <2>1. CASE n + 1 >= BufferSize
    <3>1. slot = 0 /\ kept = <<>>
      BY <1>9, <1>10, <2>1
    <3>2. Letters(old, 0) = <<>>
      BY DEF Letters
    <3> QED
      BY <3>1, <3>2
  <2>2. CASE ~(n + 1 >= BufferSize)
    <3>1. slot = n /\ kept = text
      BY <1>9, <1>10, <2>2
    <3> QED
      BY <1>2, <3>1
  <2> QED
    BY <2>1, <2>2
<1> QED
  BY <1>2, <1>4, <1>7, <1>12, <1>14, <1>15 DEF k

LEMMA ReleaseAgrees ==
    ASSUME KeyboardTyped, Agrees(kb), NEW key \in Keys,
           text' = text, held' = held \ {key}, caps' = caps
    PROVE  LET k == KeyboardHandle(kb, key + KEYUP_OFFSET)
           IN  /\ k.LeftShift = (KEY_LEFTSHIFT \in held')
               /\ k.RightShift = (KEY_RIGHTSHIFT \in held')
               /\ k.CapsLock = caps' /\ Letters(k.buffer, k.bufferIndex) = text'
<1> DEFINE k == KeyboardHandle(kb, key + KEYUP_OFFSET)
<1>1. DOMAIN kb = {"LeftShift", "RightShift", "CapsLock", "buffer", "bufferIndex"}
  BY DEF KeyboardTyped
<1>2. /\ kb.LeftShift = (KEY_LEFTSHIFT \in held) /\ kb.RightShift = (KEY_RIGHTSHIFT \in held)
      /\ kb.CapsLock = caps /\ Letters(kb.buffer, kb.bufferIndex) = text
  BY DEF Agrees
<1>3. CASE key = KEY_LEFTSHIFT
  <2>1. k = [kb EXCEPT !.LeftShift = FALSE]
    BY <1>3, HandleKey
  <2>2. /\ (KEY_LEFTSHIFT \in held') = FALSE
        /\ (KEY_RIGHTSHIFT \in held') = (KEY_RIGHTSHIFT \in held)
    BY <1>3 DEF KEY_LEFTSHIFT, KEY_RIGHTSHIFT
  <2> HIDE DEF k
  <2>3. /\ k.LeftShift = FALSE /\ k.RightShift = kb.RightShift /\ k.CapsLock = kb.CapsLock
        /\ k.bufferIndex = kb.bufferIndex /\ k.buffer = kb.buffer
    BY <1>1, <2>1
  <2> QED
    BY <1>2, <2>2, <2>3 DEF k
<1>4. CASE key = KEY_RIGHTSHIFT
  <2>1. k = [kb EXCEPT !.RightShift = FALSE]
    BY <1>4, HandleKey
  <2>2. /\ (KEY_RIGHTSHIFT \in held') = FALSE
        /\ (KEY_LEFTSHIFT \in held') = (KEY_LEFTSHIFT \in held)
    BY <1>4 DEF KEY_LEFTSHIFT, KEY_RIGHTSHIFT
  <2> HIDE DEF k
  <2>3. /\ k.RightShift = FALSE /\ k.LeftShift = kb.LeftShift /\ k.CapsLock = kb.CapsLock
        /\ k.bufferIndex = kb.bufferIndex /\ k.buffer = kb.buffer
    BY <1>1, <2>1
  <2> QED
    BY <1>2, <2>2, <2>3 DEF k
<1>5. CASE key \notin Shifts
  <2>1. (key \in DOMAIN ScanCodeSet1 /\ key \in 2 .. 57) \/ key \in {KEY_BACKSPACE, KEY_CAPSLOCK}
    BY <1>5, LayoutTyped DEF Keys
  <2>2. /\ key + KEYUP_OFFSET \notin Codes /\ key + KEYUP_OFFSET \notin 2 .. 57
    BY <1>5, <2>1 DEF Codes, Shifts, KEY_BACKSPACE, KEY_CAPSLOCK, KEY_LEFTSHIFT, KEY_RIGHTSHIFT,
                      KEYUP_OFFSET
  <2>3. key + KEYUP_OFFSET \notin DOMAIN ScanCodeSet1
    BY <2>2, LayoutTyped
  <2>4. Translate(key + KEYUP_OFFSET, UpperCase(kb), kb.CapsLock) = NUL
    BY <2>3 DEF Translate
  <2>5. k = kb
    BY <2>2, <2>4, HandleOther
  <2>6. /\ (KEY_LEFTSHIFT \in held') = (KEY_LEFTSHIFT \in held)
        /\ (KEY_RIGHTSHIFT \in held') = (KEY_RIGHTSHIFT \in held)
    BY <1>5 DEF Shifts
  <2> QED
    BY <1>2, <2>5, <2>6
<1> QED
  BY <1>3, <1>4, <1>5 DEF Shifts

(* What a handler would make of the code of a key that is struck.          *)
LEMMA StruckAgrees ==
    ASSUME KeyboardTyped, Agrees(kb), NEW key \in Keys, NEW code,
           (KeyDown(key) /\ code = key) \/ (KeyUp(key) /\ code = key + KEYUP_OFFSET)
    PROVE  LET k == KeyboardHandle(kb, code)
           IN  /\ k.LeftShift = (KEY_LEFTSHIFT \in held')
               /\ k.RightShift = (KEY_RIGHTSHIFT \in held')
               /\ k.CapsLock = caps' /\ Letters(k.buffer, k.bufferIndex) = text'
<1>1. CASE KeyUp(key) /\ code = key + KEYUP_OFFSET
  <2>1. text' = text /\ held' = held \ {key} /\ caps' = caps
    BY <1>1 DEF KeyUp
  <2> QED
    BY <1>1, <2>1, ReleaseAgrees
<1>2. CASE KeyDown(key) /\ code = key
  <2>1. /\ text' = Typed(key) /\ held' = held \cup {key}
        /\ caps' = IF key = KEY_CAPSLOCK THEN ~caps ELSE caps
    BY <1>2 DEF KeyDown
  <2>2. CASE key \in DOMAIN ScanCodeSet1
    <3>1. key # KEY_CAPSLOCK
      BY <2>2, LayoutTyped DEF KEY_CAPSLOCK
    <3> QED
      BY <1>2, <2>1, <2>2, <3>1, LetterAgrees
  <2>3. CASE key \in Shifts \cup {KEY_CAPSLOCK}
    BY <1>2, <2>1, <2>3, ModifierAgrees
  <2>4. CASE key = KEY_BACKSPACE
    <3>1. key # KEY_CAPSLOCK
      BY <2>4 DEF KEY_BACKSPACE, KEY_CAPSLOCK
    <3> QED
      BY <1>2, <2>1, <2>4, <3>1, BackspaceAgrees
  <2> QED
    BY <2>2, <2>3, <2>4 DEF Keys
<1> QED
  BY <1>1, <1>2

LEMMA StruckBuffered ==
    ASSUME IndInv, Buffered, NEW key \in Keys, KeyDown(key) \/ KeyUp(key)
    PROVE  Buffered'
<1>1. PICK code \in Byte :
        /\ (KeyDown(key) /\ code = key) \/ (KeyUp(key) /\ code = key + KEYUP_OFFSET)
        /\ Code(code)
  BY KeyCodes DEF KeyDown, KeyUp
<1>2. /\ ~port.full /\ irq = "none"
      /\ port' = [byte |-> code, full |-> TRUE, from |-> "keyboard"]
      /\ kb' = kb /\ mishaps \subseteq mishaps'
  BY <1>1 DEF Code, Arrive, drivers
<1>3. port'.byte = code /\ port'.full /\ port'.from = "keyboard"
  BY <1>2
<1>4. ~CodeWaits /\ CodeWaits'
  BY <1>2, <1>3 DEF CodeWaits
<1>5. ASSUME "missed code" \notin mishaps' PROVE Agrees(KeyboardHandle(kb, port.byte))'
  <2>1. Agrees(kb)
    BY <1>2, <1>4, <1>5 DEF Buffered
  <2> DEFINE k == KeyboardHandle(kb, code)
  <2>2. /\ k.LeftShift = (KEY_LEFTSHIFT \in held')
        /\ k.RightShift = (KEY_RIGHTSHIFT \in held')
        /\ k.CapsLock = caps' /\ Letters(k.buffer, k.bufferIndex) = text'
    BY <1>1, <2>1, StruckAgrees DEF IndInv
  <2>3. KeyboardHandle(kb, port.byte)' = k
    BY <1>2, <1>3 DEF KeyboardHandle, Slot, UpperCase
  <2> HIDE DEF k
  <2> QED
    BY <2>2, <2>3 DEF Agrees
<1> QED
  BY <1>3, <1>4, <1>5 DEF Buffered

(* No code waits before the step nor after it, and the buffer stays.       *)
LEMMA QuietBuffered ==
    ASSUME Buffered, UNCHANGED <<kb, held, caps, text>>, mishaps \subseteq mishaps',
           CodeWaits' = CodeWaits, CodeWaits => port'.byte = port.byte,
           (irq = "keyboard" /\ port.from # "keyboard" => pc \in {"config", "defaults"})'
    PROVE  Buffered'
<1>1. ASSUME "missed code" \notin mishaps'
      PROVE  IF CodeWaits' THEN Agrees(KeyboardHandle(kb, port.byte))' ELSE Agrees(kb)'
  <2>1. IF CodeWaits THEN Agrees(KeyboardHandle(kb, port.byte)) ELSE Agrees(kb)
    BY <1>1 DEF Buffered
  <2>2. CASE CodeWaits
    <3>1. KeyboardHandle(kb, port.byte)' = KeyboardHandle(kb, port.byte)
      BY <2>2 DEF KeyboardHandle, Slot, UpperCase
    <3> QED
      BY <2>1, <2>2, <3>1 DEF Agrees
  <2>3. CASE ~CodeWaits
    BY <2>1, <2>3 DEF Agrees
  <2> QED
    BY <2>2, <2>3
<1> QED
  BY <1>1 DEF Buffered

LEMMA TakeBuffered ==
    ASSUME IndInv, Buffered, Take,
           pc' \in {"config", "defaults"} \/ pc \notin {"config", "defaults"}
    PROVE  Buffered'
<1>1. /\ port' = [port EXCEPT !.full = FALSE]
      /\ mishaps' = mishaps \cup
           If(port.full /\ irq = "none" /\ port.from = "keyboard", "missed code")
      /\ UNCHANGED <<irq, line, keyboard, drivers, target>>
  BY DEF Take
<1>2. port'.byte = port.byte /\ port'.from = port.from /\ port'.full = FALSE
  BY <1>1 DEF IndInv, ControllerTyped, Ports
<1>3. irq = "mouse" => port.from # "keyboard"
  BY DEF IndInv, Skipped, FromMouse
<1>4. irq \in {"none", "keyboard", "mouse"}
  BY DEF IndInv, ControllerTyped
<1>5. (irq = "keyboard" /\ port.from # "keyboard" => pc \in {"config", "defaults"})'
  BY <1>1, <1>2 DEF Buffered
<1>6. CASE "missed code" \in mishaps'
  BY <1>5, <1>6 DEF Buffered
<1>7. CASE "missed code" \notin mishaps'
  <2>1. ~(port.full /\ irq = "none" /\ port.from = "keyboard")
    BY <1>1, <1>7 DEF If
  <2>2. CodeWaits' = CodeWaits
    BY <1>1, <1>2, <1>3, <1>4, <2>1 DEF CodeWaits
  <2>3. mishaps \subseteq mishaps' /\ UNCHANGED <<kb, held, caps, text>>
    BY <1>1 DEF keyboard, drivers
  <2> QED
    BY <1>2, <1>5, <2>2, <2>3, QuietBuffered
<1> QED
  BY <1>6, <1>7

LEMMA ArriveBuffered ==
    ASSUME Buffered, NEW byte, NEW from \in {"controller", "answer", "report"},
           Arrive(byte, from), UNCHANGED <<kb, held, caps, text>>, mishaps \subseteq mishaps',
           from = "controller" => pc' = "config"
    PROVE  Buffered'
<1>1. /\ ~port.full /\ irq = "none"
      /\ port' = [byte |-> byte, full |-> TRUE, from |-> from]
      /\ from # "controller" => irq' # "keyboard"
  BY DEF Arrive, FromMouse
<1>2. port'.from = from
  BY <1>1
<1>3. ~CodeWaits /\ ~CodeWaits'
  BY <1>1, <1>2 DEF CodeWaits
<1>4. CodeWaits' = CodeWaits
  BY <1>3 DEF CodeWaits
<1>5. (irq = "keyboard" /\ port.from # "keyboard" => pc \in {"config", "defaults"})'
  BY <1>1, <1>2
<1> QED
  BY <1>3, <1>4, <1>5, QuietBuffered

LEMMA KBHandlerBuffered ==
    ASSUME IndInv, Buffered, KBHandler
    PROVE  Buffered'
<1>1. /\ irq = "keyboard" /\ irq' = "none"
      /\ port' = [port EXCEPT !.full = FALSE]
      /\ kb' = IF KeyboardSet THEN KeyboardHandle(kb, port.byte) ELSE kb
      /\ mishaps' = mishaps \cup If(~KeyboardSet /\ port.from = "keyboard", "missed code")
      /\ UNCHANGED <<held, caps, text>>
  BY DEF KBHandler, keyboard
<1>2. port'.full = FALSE
  BY <1>1 DEF IndInv, ControllerTyped, Ports
<1>3. ~CodeWaits' /\ irq' # "keyboard"
  BY <1>1, <1>2 DEF CodeWaits
<1>4. ASSUME "missed code" \notin mishaps' PROVE Agrees(kb)'
  <2>1. "missed code" \notin mishaps /\ ~(~KeyboardSet /\ port.from = "keyboard")
    BY <1>1, <1>4 DEF If
  <2>2. CASE port.from = "keyboard"
    <3>1. CodeWaits /\ KeyboardSet
      BY <1>1, <2>1, <2>2 DEF CodeWaits
    <3>2. Agrees(KeyboardHandle(kb, port.byte)) /\ kb' = KeyboardHandle(kb, port.byte)
      BY <1>1, <2>1, <3>1 DEF Buffered
    <3> QED
      BY <1>1, <3>2 DEF Agrees
  <2>3. CASE port.from # "keyboard"
    <3>1. ~CodeWaits /\ ~KeyboardSet
      BY <1>1, <2>3 DEF CodeWaits, Buffered, KeyboardSet
    <3>2. Agrees(kb) /\ kb' = kb
      BY <1>1, <2>1, <3>1 DEF Buffered
    <3> QED
      BY <1>1, <3>2 DEF Agrees
  <2> QED
    BY <2>2, <2>3
<1> QED
  BY <1>3, <1>4 DEF Buffered

LEMMA MSHandlerBuffered ==
    ASSUME IndInv, Buffered, MSHandler
    PROVE  Buffered'
<1>1. /\ irq = "mouse" /\ irq' = "none"
      /\ port' = [port EXCEPT !.full = FALSE]
      /\ mishaps \subseteq mishaps' /\ UNCHANGED <<kb, held, caps, text>>
  BY DEF MSHandler, keyboard
<1>2. port'.from = port.from /\ port'.byte = port.byte
  BY <1>1 DEF IndInv, ControllerTyped, Ports
<1>3. port.from # "keyboard"
  BY <1>1 DEF IndInv, Skipped, FromMouse
<1>4. CodeWaits' = CodeWaits
  BY <1>2, <1>3 DEF CodeWaits
<1> QED
  BY <1>1, <1>2, <1>4, QuietBuffered

LEMMA StepBuffered == IndInv /\ Buffered /\ [Next]_vars => Buffered'
<1> SUFFICES ASSUME IndInv, Buffered, [Next]_vars PROVE Buffered'
  OBVIOUS
<1>1. CASE InitDrivers
  <2>1. CASE AskConfig
    <3>1. /\ Arrive(config, "controller") /\ pc' = "config" /\ mishaps' = mishaps
          /\ UNCHANGED <<kb, held, caps, text>>
      BY <2>1 DEF AskConfig, Step, keyboard, drivers
    <3> QED
      BY <3>1, ArriveBuffered
  <2>2. CASE ReadConfig
    BY <2>2, TakeBuffered DEF ReadConfig, Step
  <2>3. CASE Read("defaultsSent", "enable") \/ Read("enableSent", "keyboard")
    BY <2>3, TakeBuffered DEF Read, Step
  <2>4. CASE \/ Send("defaults", "defaultsSent") \/ Send("enable", "enableSent")
             \/ SetGlobal("keyboard", "mouse") \/ SetGlobal("mouse", "display")
             \/ SetGlobal("display", "done")
    <3>1. irq = "none" /\ UNCHANGED <<port, irq, kb, held, caps, text, mishaps>>
      BY <2>4 DEF Send, SetGlobal, controller, keyboard, drivers
    <3> QED
      BY <3>1, QuietBuffered DEF CodeWaits
  <2> QED
    BY <1>1, <2>1, <2>2, <2>3, <2>4 DEF InitDrivers
<1>2. CASE KBHandler
  BY <1>2, KBHandlerBuffered
<1>3. CASE MSHandler
  BY <1>3, MSHandlerBuffered
<1>4. CASE Answer
  BY <1>4, ArriveBuffered DEF Answer, keyboard, drivers
<1>5. ASSUME NEW r \in Reports, ReportByte(r) PROVE Buffered'
  BY <1>5, ArriveBuffered DEF ReportByte, Emit, drivers
<1>6. ASSUME NEW r \in Reports, LoseByte(r) PROVE Buffered'
  <2>1. UNCHANGED <<pc, port, irq, kb, held, caps, text>> /\ mishaps \subseteq mishaps'
    BY <1>6 DEF LoseByte, Emit, drivers
  <2> QED
    BY <2>1, QuietBuffered DEF CodeWaits, Buffered
<1>7. ASSUME NEW key \in Keys, KeyDown(key) \/ KeyUp(key) PROVE Buffered'
  BY <1>7, StruckBuffered
<1>8. CASE UNCHANGED vars
  <2>1. UNCHANGED <<pc, port, irq, kb, held, caps, text, mishaps>>
    BY <1>8 DEF vars, controller, keyboard, drivers
  <2> QED
    BY <2>1, QuietBuffered DEF CodeWaits, Buffered
<1> QED
  BY <1>1, <1>2, <1>3, <1>4, <1>5, <1>6, <1>7, <1>8 DEF Next

(* The buffer holds the text that was typed, as soon as the handler has    *)
(* seen the last code, unless a code reached no handler: whatever the keys *)
(* are, however long the text and wherever the buffer starts over.         *)
THEOREM BufferKeepsText == Spec => []BufferHoldsText
<1>1. Init => Buffered
  <2> SUFFICES ASSUME Init PROVE Buffered
    OBVIOUS
  <2>1. /\ irq = "none" /\ ~port.full /\ held = {} /\ caps = FALSE /\ text = <<>>
        /\ kb.LeftShift = FALSE /\ kb.RightShift = FALSE /\ kb.CapsLock = FALSE
        /\ kb.bufferIndex = 0
    BY DEF Init
  <2>2. Letters(kb.buffer, 0) = <<>>
    BY DEF Letters
  <2>3. ~CodeWaits
    BY <2>1 DEF CodeWaits
  <2>4. (KEY_LEFTSHIFT \in held) = FALSE /\ (KEY_RIGHTSHIFT \in held) = FALSE
    BY <2>1
  <2>5. Agrees(kb)
    BY <2>1, <2>2, <2>4 DEF Agrees
  <2> QED
    BY <2>1, <2>3, <2>5 DEF Buffered
<1>2. IndInv /\ Buffered => BufferHoldsText
  <2> SUFFICES ASSUME Buffered, irq # "keyboard", ~port.full, "missed code" \notin mishaps
               PROVE  Letters(kb.buffer, kb.bufferIndex) = text
    BY DEF BufferHoldsText, Letters
  <2>1. ~CodeWaits
    BY DEF CodeWaits
  <2> QED
    BY <2>1 DEF Buffered, Agrees
<1> QED
  BY <1>1, <1>2, StepBuffered, AlwaysIndInv, PTL DEF Spec

-----------------------------------------------------------------------------
(***************************************************************************)
(* The pointer and the reports.                                            *)
(***************************************************************************)
Where(m) == <<m.X, m.Y, m.buttons>>
Full(m) == <<m.Packet[0], m.Packet[1], m.Packet[2]>>

(* Where report r leads the pointer of m, and where a packet that waits    *)
(* will have led it.                                                       *)
Led(m, r) ==
    <<Clamp(m.X + Moves(r[2], Bit(r[1], 16), Bit(r[1], 64)), Width),
      Clamp(m.Y - Moves(r[3], Bit(r[1], 32), Bit(r[1], 128)), Height),
      {b \in {1, 2, 4} : Bit(r[1], b)}>>
Ahead(m) == IF m.PacketReady THEN Led(m, Full(m)) ELSE Where(m)

Calm == mishaps \cap (OutOfStep \cup {"no display"}) = {}

(* The packet holds the report that is under way, as far as it was         *)
(* handled, and the pointer lacks at most the last one.                    *)
Follows ==
    /\ mouse.PacketReady => mouse.Cycle = 0
    /\ Calm =>
         /\ \A i \in 0 .. 2 : i < mouse.Cycle => mouse.Packet[i] = line.report[i + 1]
         /\ Pending => port.byte = line.report[mouse.Cycle + 1]
         /\ target = IF Pending /\ mouse.Cycle = 2 THEN Led(mouse, line.report)
                                                   ELSE Ahead(mouse)

(* The handler's arithmetic is that of nine-bit movements, kept on the     *)
(* display.                                                                *)
LEMMA MovedMoves ==
    ASSUME NEW n \in Int, NEW b \in Byte, NEW negative \in BOOLEAN, NEW overflow \in BOOLEAN,
           NEW size \in Nat \ {0}
    PROVE  /\ ClampState(Moved(n, b, negative, overflow), size)
                = Clamp(n + Moves(b, negative, overflow), size)
           /\ ClampState(-Moved(-n, b, negative, overflow), size)
                = Clamp(n - Moves(b, negative, overflow), size)
<1> DEFINE moves == Moves(b, negative, overflow)
<1>1. /\ moves \in Int
      /\ Moved(n, b, negative, overflow) = n + moves
      /\ Moved(-n, b, negative, overflow) = (-n) + moves
  BY DEF Moves, Moved, Byte
<1> HIDE DEF moves
<1>2. -((-n) + moves) = n - moves /\ n - moves \in Int /\ n + moves \in Int
  BY <1>1
<1>3. ASSUME NEW x \in Int PROVE ClampState(x, size) = Clamp(x, size)
  BY DEF ClampState, Clamp
<1> QED
  BY <1>1, <1>2, <1>3 DEF moves

LEMMA HandlePacketLeads ==
    ASSUME NEW m \in Mice, NEW size, m.PacketReady => size = <<Width, Height>>
    PROVE  LET h == HandlePacket(m, size)
           IN  /\ h \in Mice /\ h.Cycle = m.Cycle /\ h.Packet = m.Packet
               /\ ~h.PacketReady /\ Where(h) = Ahead(m)
<1> DEFINE h == HandlePacket(m, size)
<1>1. CASE ~m.PacketReady
  BY <1>1 DEF HandlePacket, Ahead
<1>2. CASE m.PacketReady
  <2> DEFINE flags == m.Packet[0]
             x == ClampState(Moved(m.X, m.Packet[1], Bit(flags, 16), Bit(flags, 64)), Width)
             y == ClampState(-Moved(-m.Y, m.Packet[2], Bit(flags, 32), Bit(flags, 128)), Height)
             pressed == {b \in {1, 2, 4} : Bit(flags, b)}
  <2>1. /\ m.X \in Int /\ m.Y \in Int /\ m.Packet[1] \in Byte /\ m.Packet[2] \in Byte
        /\ Width \in Nat \ {0} /\ Height \in Nat \ {0}
    BY Ps2Assumption DEF Mice
  <2>2. /\ Bit(flags, 16) \in BOOLEAN /\ Bit(flags, 64) \in BOOLEAN
        /\ Bit(flags, 32) \in BOOLEAN /\ Bit(flags, 128) \in BOOLEAN
    BY DEF Bit
  <2>3. /\ x = Clamp(m.X + Moves(m.Packet[1], Bit(flags, 16), Bit(flags, 64)), Width)
        /\ y = Clamp(m.Y - Moves(m.Packet[2], Bit(flags, 32), Bit(flags, 128)), Height)
    BY <2>1, <2>2, MovedMoves
  <2>4. Led(m, Full(m)) = <<x, y, pressed>>
    BY <2>3 DEF Led, Full
  <2>5. size[1] = Width /\ size[2] = Height
    BY <1>2
  <2>6. h = [m EXCEPT !.PacketReady = FALSE, !.X = x, !.Y = y, !.buttons = pressed]
    BY <1>2, <2>5 DEF HandlePacket
  <2>7. h \in Mice /\ h.Cycle = m.Cycle /\ h.Packet = m.Packet
    <3>1. size \in (Nat \ {0}) \X (Nat \ {0})
      BY <1>2, <2>1
    <3> QED
      BY <3>1, HandlePacketTyped
  <2> HIDE DEF x, y, pressed, h
  <2>8. h.PacketReady = FALSE /\ h.X = x /\ h.Y = y /\ h.buttons = pressed
    BY <2>6 DEF Mice
  <2> QED
    BY <1>2, <2>4, <2>7, <2>8 DEF Ahead, Where, h
<1> QED
  BY <1>1, <1>2

LEMMA StoreKeeps ==
    ASSUME NEW m \in Mice, NEW data \in Byte
    PROVE  LET s == Store(m, data)
           IN  /\ s.Packet = [m.Packet EXCEPT ![m.Cycle] = data]
               /\ s.PacketReady <=> m.Cycle = 2
               /\ Where(s) = Where(m)
<1> DEFINE packet == [m.Packet EXCEPT ![m.Cycle] = data]
           cycle == (m.Cycle + 1) % 3
           ready == (m.Cycle = 2)
           s == Store(m, data)
<1>1. s = [m EXCEPT !.Packet = packet, !.Cycle = cycle, !.PacketReady = ready]
  BY DEF Store, Mice
<1> HIDE DEF packet, cycle, ready, s
<1>2. /\ s.Packet = packet /\ s.PacketReady = ready
      /\ s.X = m.X /\ s.Y = m.Y /\ s.buttons = m.buttons
  BY <1>1 DEF Mice
<1> QED
  BY <1>2 DEF packet, ready, s, Where

-----------------------------------------------------------------------------
(* Neither the mouse nor what reaches its handler changes.                 *)
LEMMA QuietFollows ==
    ASSUME Follows, UNCHANGED <<mouse, target>>, line'.report = line.report,
           mishaps \subseteq mishaps', Pending' = Pending, Pending => port'.byte = port.byte
    PROVE  Follows'
<1>1. ASSUME Calm'
      PROVE  /\ \A i \in 0 .. 2 : i < mouse'.Cycle => mouse'.Packet[i] = line'.report[i + 1]
             /\ Pending' => port'.byte = line'.report[mouse'.Cycle + 1]
             /\ target' = IF Pending' /\ mouse'.Cycle = 2 THEN Led(mouse', line'.report)
                                                          ELSE Ahead(mouse')
  <2>1. Calm
    BY <1>1 DEF Calm
  <2> QED
    BY <2>1 DEF Follows
<1> QED
  BY <1>1 DEF Follows, Led, Ahead, Full, Where

LEMMA EmitFollows ==
    ASSUME IndInv, Follows, NEW r \in Reports, ReportByte(r)
    PROVE  Follows'
<1> DEFINE c == mouse.Cycle
           byte == r[line.sent + 1]
<1>1. /\ irq = "none" /\ irq' = "mouse" /\ port' = [byte |-> byte, full |-> TRUE, from |-> "report"]
      /\ line' = [line EXCEPT !.report = r, !.sent = (@ + 1) % 3]
      /\ line.sent # 0 => r = line.report
      /\ target' = IF line.sent = 2 THEN Destination(r) ELSE target
      /\ mouse' = mouse /\ mishaps' = mishaps
  <2>1. Bit(config, 2)
    BY EmitKeeps DEF ReportByte
  <2> QED
    BY <2>1 DEF ReportByte, Emit, Arrive, FromMouse, drivers
<1>2. line'.report = r /\ port'.byte = byte /\ port'.from = "report"
  BY <1>1 DEF IndInv, MouseTyped, Lines
<1>3. ~Pending /\ Pending'
  BY <1>1, <1>2 DEF Pending
<1>4. ASSUME Calm'
      PROVE  /\ \A i \in 0 .. 2 : i < c => mouse.Packet[i] = r[i + 1]
             /\ byte = r[c + 1]
             /\ target' = IF c = 2 THEN Led(mouse, r) ELSE Ahead(mouse)
  <2>1. line.sent = c /\ c \in 0 .. 2
    BY <1>1, <1>3, <1>4 DEF IndInv, InStep, MouseTyped, Mice, Calm
  <2>2. /\ \A i \in 0 .. 2 : i < c => mouse.Packet[i] = line.report[i + 1]
        /\ target = Ahead(mouse)
    BY <1>1, <1>3, <1>4 DEF Follows, Calm
  <2>3. \A i \in 0 .. 2 : i < c => mouse.Packet[i] = r[i + 1]
    BY <1>1, <2>1, <2>2
  <2>4. CASE c = 2
    <3>1. ~mouse.PacketReady
      <4>1. mouse.PacketReady => c = 0
        BY Zenon DEF Follows
      <4> QED
        BY <2>4, <4>1
    <3>2. target = <<mouse.X, mouse.Y, mouse.buttons>>
      BY <2>2, <3>1 DEF Ahead, Where
    <3>3. Destination(r) = Led(mouse, r)
      BY <3>2 DEF Destination, Led
    <3> QED
      BY <1>1, <2>1, <2>3, <2>4, <3>3
  <2>5. CASE c # 2
    BY <1>1, <2>1, <2>2, <2>3, <2>5
  <2> QED
    BY <2>4, <2>5
<1> HIDE DEF c, byte
<1>5. mouse'.Cycle = c /\ mouse'.PacketReady = mouse.PacketReady
  BY <1>1 DEF c
<1>6. Led(mouse', line'.report) = Led(mouse, r) /\ Ahead(mouse') = Ahead(mouse)
  BY <1>1, <1>2
<1> QED
  BY <1>1, <1>2, <1>3, <1>4, <1>5, <1>6 DEF Follows, c

LEMMA HandlePacketSpends ==
    ASSUME NEW m \in Mice, NEW size
    PROVE  HandlePacket(m, size).PacketReady = FALSE
<1>1. CASE ~m.PacketReady
  BY <1>1 DEF HandlePacket, Mice
<1>2. CASE m.PacketReady
  <2> DEFINE flags == m.Packet[0]
             x == ClampState(Moved(m.X, m.Packet[1], Bit(flags, 16), Bit(flags, 64)), size[1])
             y == ClampState(-Moved(-m.Y, m.Packet[2], Bit(flags, 32), Bit(flags, 128)), size[2])
             pressed == {b \in {1, 2, 4} : Bit(flags, b)}
             h == HandlePacket(m, size)
  <2>1. h = [m EXCEPT !.PacketReady = FALSE, !.X = x, !.Y = y, !.buttons = pressed]
    BY <1>2 DEF HandlePacket
  <2> HIDE DEF x, y, pressed, h
  <2>2. h.PacketReady = FALSE
    BY <2>1 DEF Mice
  <2> QED
    BY <2>2 DEF h
<1> QED
  BY <1>1, <1>2

(* A packet waits only when the next report is yet to begin.               *)
LEMMA ReadyAtStart ==
    ASSUME IndInv, MSHandler, mouse.PacketReady => mouse.Cycle = 0
    PROVE  mouse'.PacketReady => mouse'.Cycle = 0
<1>1. PICK size \in Sizes :
        mouse' = IF ~MouseSet THEN mouse
                 ELSE IF skipPacket THEN HandlePacket(mouse, size)
                 ELSE Store(HandlePacket(mouse, size), port.byte)
  BY DEF MSHandler
<1>2. mouse \in Mice /\ port.byte \in Byte /\ size \in (Nat \ {0}) \X (Nat \ {0})
  BY Ps2Assumption DEF IndInv, MouseTyped, ControllerTyped, Ports, Sizes
<1> DEFINE h == HandlePacket(mouse, size)
           s == Store(h, port.byte)
<1>3. h \in Mice /\ h.PacketReady = FALSE
  BY <1>2, HandlePacketTyped, HandlePacketSpends
<1>4. mouse' = IF ~MouseSet THEN mouse ELSE IF skipPacket THEN h ELSE s
  BY <1>1
<1> HIDE DEF h
<1>5. (s.PacketReady <=> h.Cycle = 2) /\ s.Cycle = (h.Cycle + 1) % 3
  BY <1>2, <1>3, StoreTyped, StoreKeeps
<1> HIDE DEF s
<1>6. s.PacketReady => s.Cycle = 0
  BY <1>5
<1> QED
  BY <1>3, <1>4, <1>6

(* A byte of a report is handled, and nothing has gone amiss.              *)
LEMMA ReportHandled ==
    ASSUME IndInv, Follows, MSHandler, Pending, Calm'
    PROVE  /\ \A i \in 0 .. 2 : i < mouse'.Cycle => mouse'.Packet[i] = line.report[i + 1]
           /\ target = Ahead(mouse')
<1> DEFINE c == mouse.Cycle
           data == port.byte
<1>1. /\ irq = "mouse"
      /\ mishaps' = mishaps \cup If(~MouseSet /\ port.from = "report", "early report")
                            \cup If(mouse.PacketReady /\ ~DisplaySet, "no display")
  BY DEF MSHandler
<1>2. Calm /\ MouseSet /\ (mouse.PacketReady => DisplaySet)
  BY <1>1 DEF If, OutOfStep, Calm, Pending
<1>3. ~skipPacket
  BY DEF Pending, IndInv, Skipped
<1>4. /\ mouse.PacketReady => c = 0
      /\ \A i \in 0 .. 2 : i < c => mouse.Packet[i] = line.report[i + 1]
      /\ data = line.report[c + 1]
      /\ target = IF c = 2 THEN Led(mouse, line.report) ELSE Ahead(mouse)
  BY <1>2, <1>3 DEF Follows
<1>5. mouse \in Mice /\ data \in Byte
  BY DEF IndInv, MouseTyped, ControllerTyped, Ports
<1>6. c \in {0, 1, 2} /\ mouse.Packet \in [0 .. 2 -> Byte]
  BY <1>5 DEF Mice
<1>7. PICK size \in Sizes : mouse' = Store(HandlePacket(mouse, size), data)
  BY <1>2, <1>3 DEF MSHandler
<1>8. mouse.PacketReady => size = <<Width, Height>>
  BY <1>2 DEF Sizes
<1> DEFINE h == HandlePacket(mouse, size)
           s == Store(h, data)
<1>9. /\ h \in Mice /\ h.Cycle = c /\ h.Packet = mouse.Packet
      /\ ~h.PacketReady /\ Where(h) = Ahead(mouse)
  BY <1>5, <1>8, HandlePacketLeads
<1> HIDE DEF h
<1>10. /\ s \in Mice /\ s.Cycle = (c + 1) % 3 /\ (s.PacketReady <=> c = 2)
       /\ s.Packet = [mouse.Packet EXCEPT ![c] = data] /\ Where(s) = Ahead(mouse)
  BY <1>5, <1>9, StoreTyped, StoreKeeps
<1>11. mouse' = s
  BY <1>7 DEF h
<1> HIDE DEF s, c, data
<1>12. CASE c # 2
  <2>1. s.Cycle = c + 1 /\ ~s.PacketReady
    BY <1>6, <1>10, <1>12
  <2>2. ASSUME NEW i \in 0 .. 2, i < c + 1 PROVE s.Packet[i] = line.report[i + 1]
    BY <1>4, <1>6, <1>10, <2>2
  <2>3. Ahead(s) = target
    BY <1>4, <1>10, <1>12, <2>1 DEF Ahead
  <2> QED
    BY <1>11, <2>1, <2>2, <2>3
<1>13. CASE c = 2
  <2>1. s.Cycle = 0 /\ s.PacketReady /\ ~mouse.PacketReady
    BY <1>4, <1>10, <1>13
  <2>2. /\ s.Packet[0] = line.report[1] /\ s.Packet[1] = line.report[2]
        /\ s.Packet[2] = line.report[3]
    <3>1. mouse.Packet[0] = line.report[1] /\ mouse.Packet[1] = line.report[2]
      BY <1>4, <1>13
    <3> QED
      BY <1>4, <1>6, <1>10, <1>13, <3>1
  <2>3. s.X = mouse.X /\ s.Y = mouse.Y
    BY <1>10, <2>1 DEF Ahead, Where
  <2>4. Ahead(s) = Led(mouse, line.report)
    BY <2>1, <2>2, <2>3 DEF Ahead, Led, Full
  <2> QED
    BY <1>4, <1>6, <1>11, <1>13, <2>1, <2>4
<1> QED
  BY <1>12, <1>13

LEMMA MSHandlerFollows ==
    ASSUME IndInv, Follows, MSHandler
    PROVE  Follows'
<1>1. /\ irq = "mouse" /\ irq' = "none" /\ mishaps \subseteq mishaps'
      /\ UNCHANGED <<pc, line, target>>
  BY DEF MSHandler
<1>2. ~Pending' /\ (mouse'.PacketReady => mouse'.Cycle = 0)
  BY <1>1, ReadyAtStart DEF Pending, Follows
<1>3. CASE port.from = "report"
  <2>1. ASSUME Calm'
        PROVE  /\ \A i \in 0 .. 2 : i < mouse'.Cycle => mouse'.Packet[i] = line'.report[i + 1]
               /\ target' = Ahead(mouse')
    BY <1>1, <1>3, <2>1, ReportHandled DEF Pending
  <2> QED
    BY <1>2, <2>1 DEF Follows, Ahead, Led, Full, Where
<1>4. CASE port.from # "report"
  <2>1. port.from = "answer"
    BY <1>1, <1>4 DEF IndInv, Skipped, FromMouse
  <2>2. CASE ~Calm'
    BY <1>2, <2>2 DEF Follows
  <2>3. CASE Calm'
    <3>1. "late answer" \notin mishaps
      BY <1>1, <2>3 DEF OutOfStep, Calm
    <3>2. ~MouseSet
      BY <1>1, <2>1, <3>1 DEF IndInv, InStep
    <3>3. mouse' = mouse
      BY <3>2 DEF MSHandler
    <3>4. ~Pending
      BY <1>4 DEF Pending
    <3>5. Pending' = Pending
      BY <1>2, <3>4 DEF Pending
    <3> QED
      BY <1>1, <3>3, <3>4, <3>5, QuietFollows
  <2> QED
    BY <2>2, <2>3
<1> QED
  BY <1>3, <1>4

LEMMA StepFollows == IndInv /\ Follows /\ [Next]_vars => Follows'
<1> SUFFICES ASSUME IndInv, Follows, [Next]_vars PROVE Follows'
  OBVIOUS
(* What leaves mouse, line and a report that is pending as they are.       *)
<1>1. ASSUME UNCHANGED <<mouse, target, line, irq>>, mishaps \subseteq mishaps',
             port'.from = port.from, port'.byte = port.byte
      PROVE  Follows'
  BY <1>1, QuietFollows DEF Pending
<1>2. ASSUME NEW byte, NEW from, from # "report", Arrive(byte, from),
             UNCHANGED <<mouse, target>>, line'.report = line.report, mishaps \subseteq mishaps'
      PROVE  Follows'
  <2>1. irq = "none" /\ port' = [byte |-> byte, full |-> TRUE, from |-> from]
    BY <1>2 DEF Arrive
  <2>2. port'.from = from
    BY <2>1
  <2>3. ~Pending /\ ~Pending'
    BY <1>2, <2>1, <2>2 DEF Pending
  <2>4. Pending' = Pending
    BY <2>3 DEF Pending
  <2> QED
    BY <1>2, <2>3, <2>4, QuietFollows
<1>3. ASSUME Take PROVE Follows'
  <2>1. /\ port'.byte = port.byte /\ port'.from = port.from /\ mishaps \subseteq mishaps'
        /\ UNCHANGED <<irq, line, keyboard, drivers, target>>
    BY <1>3, TakeTyped DEF IndInv
  <2> QED
    BY <1>1, <2>1 DEF drivers
<1>4. CASE InitDrivers
  <2>1. CASE AskConfig
    <3>1. /\ Arrive(config, "controller") /\ UNCHANGED <<mouse, target, line, mishaps>>
      BY <2>1 DEF AskConfig, drivers
    <3> QED
      BY <1>2, <3>1
  <2>2. CASE ReadConfig \/ Read("defaultsSent", "enable") \/ Read("enableSent", "keyboard")
    BY <1>3, <2>2 DEF ReadConfig, Read
  <2>3. CASE \/ Send("defaults", "defaultsSent") \/ Send("enable", "enableSent")
             \/ SetGlobal("keyboard", "mouse") \/ SetGlobal("mouse", "display")
             \/ SetGlobal("display", "done")
    <3>1. UNCHANGED <<port, irq, mouse, target, line, mishaps>>
      BY <2>3 DEF Send, SetGlobal, controller, drivers
    <3> QED
      BY <1>1, <3>1
  <2> QED
    BY <1>4, <2>1, <2>2, <2>3 DEF InitDrivers
<1>5. CASE KBHandler
  <2>1. /\ irq = "keyboard" /\ irq' = "none" /\ mishaps \subseteq mishaps'
        /\ UNCHANGED <<mouse, target, line>>
    BY <1>5 DEF KBHandler
  <2>2. ~Pending /\ Pending' = Pending
    BY <2>1 DEF Pending
  <2> QED
    BY <2>1, <2>2, QuietFollows
<1>6. CASE MSHandler
  BY <1>6, MSHandlerFollows
<1>7. CASE Answer
  <2>1. /\ Arrive(ACK, "answer") /\ UNCHANGED <<mouse, target>> /\ mishaps \subseteq mishaps'
        /\ line' = [line EXCEPT !.reporting = (Head(answers) = "enable")]
    BY <1>7 DEF Answer, drivers
  <2>2. line'.report = line.report
    BY <2>1 DEF IndInv, MouseTyped, Lines
  <2> QED
    BY <1>2, <2>1, <2>2
<1>8. ASSUME NEW r \in Reports, ReportByte(r) PROVE Follows'
  BY <1>8, EmitFollows
<1>9. ASSUME NEW r \in Reports, LoseByte(r) PROVE Follows'
  <2>1. "lost byte" \in mishaps' /\ mouse' = mouse
    BY <1>9 DEF LoseByte, Emit, drivers
  <2>2. ~Calm'
    BY <2>1 DEF Calm, OutOfStep
  <2> QED
    BY <2>1, <2>2 DEF Follows
<1>10. ASSUME NEW key \in Keys, KeyDown(key) \/ KeyUp(key) PROVE Follows'
  <2>1. PICK code : Code(code)
    BY <1>10 DEF KeyDown, KeyUp
  <2>2. /\ Arrive(code, "keyboard") /\ UNCHANGED <<mouse, target, line>>
        /\ mishaps \subseteq mishaps'
    BY <2>1 DEF Code, drivers
  <2> QED
    BY <1>2, <2>2
<1>11. CASE UNCHANGED vars
  <2>1. UNCHANGED <<port, irq, mouse, target, line, mishaps>>
    BY <1>11 DEF vars, controller, drivers
  <2> QED
    BY <1>1, <2>1
<1> QED
  BY <1>4, <1>5, <1>6, <1>7, <1>8, <1>9, <1>10, <1>11 DEF Next

(* Pointer and buttons are as all reports together have left them, as soon *)
(* as HandlePacket has seen the last of these, unless a report came before *)
(* GlobalMouse or was handled before GlobalDisplay, an acknowledgement     *)
(* came after them, or a byte was lost: whatever the mouse reports and     *)
(* whatever the size of the display.                                       *)
THEOREM PointerKeepsFollowing == Spec => []PointerFollowsReports
<1>1. Init => Follows
  BY DEF Init, Follows, Pending, Ahead, Where
<1>2. IndInv /\ Follows => PointerFollowsReports
  <2> SUFFICES ASSUME Follows, irq # "mouse", ~mouse.PacketReady, Calm
               PROVE  Where(mouse) = target
    BY DEF PointerFollowsReports, Where, Calm
  <2>1. ~Pending
    BY DEF Pending
  <2> QED
    BY <2>1 DEF Follows, Ahead
<1> QED
  BY <1>1, <1>2, StepFollows, AlwaysIndInv, PTL DEF Spec
=============================================================================
