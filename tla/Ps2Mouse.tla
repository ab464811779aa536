------------------------------ MODULE Ps2Mouse ------------------------------
(***************************************************************************)
(* The mouse driver, kernel/arch/i386/io/ps2mouse.c, beside the keyboard   *)
(* that shares the i8042 controller with it: one output buffer at port     *)
(* 0x60 for the bytes of both.  init_mouse runs with interrupts disabled   *)
(* and polls; afterwards IRQ1 and IRQ12 bring the handlers, one at a time. *)
(*                                                                         *)
(* External: the controller, the mouse and the keyboard.  A byte that      *)
(* becomes the first one raises its device's line, and port 0x60 goes on   *)
(* holding the byte that was read last.  The controller takes what is      *)
(* written to it at once, so mouse_wait(1) never waits.                    *)
(***************************************************************************)
EXTENDS Integers, Sequences, SequencesExt

CONSTANTS
  Mice,                \* kinds of mouse: "absent", "plain", "wheel"
  Keys, MaxKeys,       \* scan codes, and how many are sent (bound)
  Moves, MaxMoves,     \* what the mouse reports, and how often (bound)
  MaxLate              \* how often an answer comes after the wait for it (bound)

ASSUME MouseAssumption ==
  /\ Mice \subseteq {"absent", "plain", "wheel"}
  /\ Keys \subseteq 1 .. 127
  /\ Moves \subseteq [buttons : SUBSET {"LEFT", "RIGHT", "MIDDLE"}, x : -128 .. 127,
                      y : -128 .. 127, wheel : -1 .. 1, overflow : BOOLEAN]
  /\ MaxKeys \in Nat /\ MaxMoves \in Nat /\ MaxLate \in Nat

VARIABLES
  out,                 \* controller: bytes for port 0x60, each with its device
  port60,              \* controller: the byte read last
  irr,                 \* PIC: whose interrupt is latched
  config,              \* controller: the command byte
  mouse,               \* the device
  inbox,               \* bytes it was sent and has not taken
  step,                \* where init_mouse is
  status, result,      \* its variables
  mouse_mode, mouse_cycle, mouse_byte,
  at,                  \* "none", or in mouse_handler: "loop"
  packet,              \* its local packet: <<>> while nothing was stored
  sent, strokes,       \* history: what the mouse reported, how many keys came
  decoded,             \* history: the packets finished
  late,                \* how many answers have been late
  calm,                \* history: in init_mouse, no key, no move, no late answer
  stolen               \* history: keyboard_handler read a byte of the mouse

ctlVars    == <<out, irr, port60>>
initVars   == <<step, status, result, mouse_mode, config, late>>
cycleVars  == <<mouse_cycle, mouse_byte, at, packet, decoded>>
deviceVars == <<mouse, inbox, sent, strokes>>

vars == <<ctlVars, initVars, cycleVars, deviceVars, stolen, calm>>

\* bit b (a power of two) of a byte, signed or not
HasBit(v, b) == ((v % 256) \div b) % 2 = 1

WithBit(v, b) == IF HasBit(v, b) THEN v ELSE v + b
WithoutBit(v, b) == IF HasBit(v, b) THEN v - b ELSE v

Control(b)   == <<"control", b>>
ToMouse(b)   == <<"mouse", b>>
Read(target) == <<"read", target>>

Ask(b)  == <<ToMouse(b), Read("none")>>
AskId   == Ask(242) \o <<Read("result")>>
Rate(r) == Ask(243) \o Ask(r)

(* init_mouse: enable the mouse, set bit 1 of the command byte, defaults,  *)
(* report, and the knock that turns on the wheel of a mouse that has one.  *)
Script ==
  <<Control(168), Control(32), Read("status"), Control(96)>>
  \o Ask(246) \o Ask(244)
  \o AskId \o Rate(200) \o Rate(100) \o Rate(80) \o AskId

LastStep    == Len(Script) + 1
Initialised == step > LastStep

-----------------------------------------------------------------------------
(* The controller.                                                         *)

Src(bytes) == Head(bytes).src

\* the line a byte raises: bits 0 and 1 of the command byte enable IRQ1 and IRQ12
Edge(bytes, cfg) ==
  IF bytes # <<>> /\ HasBit(cfg, IF Src(bytes) = "kbd" THEN 1 ELSE 2)
  THEN {Src(bytes)} ELSE {}

\* a device puts bytes behind those that wait
Arrive(src, values) ==
  LET bytes == [i \in 1 .. Len(values) |-> [src |-> src, val |-> values[i]]]
  IN /\ out' = out \o bytes
     /\ irr' = irr \cup (IF out = <<>> THEN Edge(bytes, config) ELSE {})

\* port_byte_in(0x60) takes the first byte, if there is one
TakeByte(latched) ==
  IF out = <<>>
  THEN irr' = latched /\ UNCHANGED <<out, port60>>
  ELSE /\ out' = Tail(out)
       /\ port60' = Head(out).val
       /\ irr' = latched \cup Edge(Tail(out), config)

ByteRead == IF out = <<>> THEN port60 ELSE Head(out).val

-----------------------------------------------------------------------------
(* The devices.  Bits 4 and 5 of the command byte stop their clocks.       *)

Ack == 250

\* the mouse takes a byte it was sent and answers
Answers(m, b) ==
  CASE m.rateNext -> <<Ack>>
    [] ~m.rateNext /\ b = 242 -> <<Ack, m.id>>
    [] OTHER -> <<Ack>>

After(m, b) ==
  IF m.rateNext
  THEN LET rates == <<m.rates[2], m.rates[3], b>>
       IN [m EXCEPT !.rateNext = FALSE, !.rates = rates,
                    !.id = IF m.kind = "wheel" /\ rates = <<200, 100, 80>> THEN 3 ELSE m.id]
  ELSE [m EXCEPT !.rateNext = (b = 243),
                 !.reporting = CASE b = 244 -> TRUE [] b = 246 -> FALSE [] OTHER -> m.reporting]

MouseAnswers ==
  /\ inbox # <<>>
  /\ inbox' = Tail(inbox)
  /\ IF mouse.kind = "absent"
     THEN UNCHANGED <<out, irr, mouse>>
     ELSE /\ ~HasBit(config, 32)
          /\ Arrive("aux", Answers(mouse, Head(inbox)))
          /\ mouse' = After(mouse, Head(inbox))
  /\ UNCHANGED <<port60, initVars, cycleVars, sent, strokes, stolen, calm>>

ButtonBit == [LEFT |-> 1, RIGHT |-> 2, MIDDLE |-> 4]

Encoded(m, id) ==
  LET Bits(b) == IF b \in m.buttons THEN ButtonBit[b] ELSE 0
      first == 8 + Bits("LEFT") + Bits("RIGHT") + Bits("MIDDLE") + (IF m.overflow THEN 64 ELSE 0)
  IN <<first, m.x, m.y>> \o (IF id = 3 THEN <<m.wheel>> ELSE <<>>)

Move(m) ==
  /\ mouse.kind # "absent" /\ mouse.reporting /\ ~HasBit(config, 32)
  /\ inbox = <<>>
  /\ Len(sent) < MaxMoves
  /\ Arrive("aux", Encoded(m, mouse.id))
  /\ sent' = Append(sent, m)
  /\ calm' = (calm /\ Initialised)
  /\ UNCHANGED <<port60, mouse, inbox, strokes, initVars, cycleVars, stolen>>

KeyStroke(k) ==
  /\ ~HasBit(config, 16)
  /\ strokes < MaxKeys
  /\ Arrive("kbd", <<k>>)
  /\ strokes' = strokes + 1
  /\ calm' = (calm /\ Initialised)
  /\ UNCHANGED <<port60, mouse, inbox, sent, initVars, cycleVars, stolen>>

Devices == MouseAnswers \/ (\E m \in Moves : Move(m)) \/ (\E k \in Keys : KeyStroke(k))

-----------------------------------------------------------------------------
(* init_mouse.                                                             *)

MouseInit ==
  /\ out = <<>> /\ port60 = 0 /\ irr = {}
  /\ config \in {65, 97}
  /\ mouse \in [kind : Mice, reporting : {FALSE}, id : {0}, rateNext : {FALSE},
                rates : {<<0, 0, 0>>}]
  /\ inbox = <<>>
  /\ step = 1 /\ status = 0 /\ result = 0
  /\ mouse_mode = "DEFAULT" /\ mouse_cycle = 0 /\ mouse_byte = [i \in 0 .. 3 |-> 0]
  /\ at = "none" /\ packet = <<>>
  /\ sent = <<>> /\ strokes = 0 /\ decoded = <<>> /\ late = 0 /\ calm = TRUE
  /\ stolen = FALSE

AtStep(op) == step < LastStep /\ Script[step][1] = op
Operand == Script[step][2]

\* mutant: the interrupt of the mouse is not enabled
WithIrq12_Not(v) == v

WithIrq12(v) == WithBit(v, 2)

(* Port 0x64 takes a command; 0x20 is answered with the command byte, 0x60 *)
(* takes a new one from port 0x60.                                         *)
ControlStep ==
  /\ AtStep("control")
  /\ step' = step + 1
  /\ config' = CASE Operand = 168 -> WithoutBit(config, 32)
                 [] Operand = 96 -> status
                 [] OTHER -> config
  /\ CASE Operand = 32 -> Arrive("kbd", <<config>>)
       [] Operand = 96 -> irr' = irr \cup Edge(out, config') /\ UNCHANGED out
       [] OTHER -> UNCHANGED <<out, irr>>
  /\ UNCHANGED <<port60, status, result, late, mouse_mode, cycleVars, deviceVars, stolen, calm>>

MouseWrite ==
  /\ AtStep("mouse")
  /\ step' = step + 1
  /\ inbox' = Append(inbox, Operand)
  /\ UNCHANGED <<ctlVars, config, status, result, late, mouse_mode, cycleVars, mouse, sent, strokes,
                 stolen, calm>>

AnswerDue == out = <<>> /\ inbox # <<>> /\ mouse.kind # "absent"

(* mouse_wait(0) and the read: of whatever byte came, or, when the wait is *)
(* over, of what the port still holds.                                     *)
MouseRead ==
  /\ AtStep("read")
  /\ step' = step + 1
  /\ TakeByte(irr)
  /\ status' = IF Operand = "status" THEN WithIrq12(ByteRead) ELSE status
  /\ result' = IF Operand = "result" THEN ByteRead ELSE result
  /\ late' = IF AnswerDue THEN late + 1 ELSE late
  /\ late' <= MaxLate
  /\ calm' = (calm /\ ~AnswerDue)
  /\ UNCHANGED <<config, mouse_mode, cycleVars, deviceVars, stolen>>

\* mutant: the wheel is believed in without asking the mouse
HasWheel_Hopeful(answer) == TRUE

HasWheel(answer) == answer = 3

\* the mode, the handler, and a last read that empties the port
FinishInit ==
  /\ step = LastStep
  /\ step' = step + 1
  /\ mouse_mode' = IF HasWheel(result) THEN "SCROLLWHEEL" ELSE mouse_mode
  /\ TakeByte(irr)
  /\ UNCHANGED <<config, status, result, late, cycleVars, deviceVars, stolen, calm>>

InitMouse == ControlStep \/ MouseWrite \/ MouseRead \/ FinishInit

-----------------------------------------------------------------------------
(* The handlers.                                                           *)

\* keyboard_handler reads the port without a look at the status
KeyboardHandler ==
  /\ Initialised /\ at = "none"
  /\ "kbd" \in irr
  /\ TakeByte(irr \ {"kbd"})
  /\ stolen' = (stolen \/ (out # <<>> /\ Src(out) = "aux"))
  /\ UNCHANGED <<initVars, cycleVars, deviceVars, calm>>

\* mouse_handler is entered; its packet is whatever the stack holds
MouseHandler ==
  /\ Initialised /\ at = "none"
  /\ "aux" \in irr /\ "kbd" \notin irr
  /\ irr' = irr \ {"aux"}
  /\ at' = "loop" /\ packet' = <<>>
  /\ UNCHANGED <<out, port60, initVars, mouse_cycle, mouse_byte, decoded, deviceVars, stolen, calm>>

Packet(bytes) ==
  [x |-> bytes[1], y |-> bytes[2],
   buttons |-> {b \in DOMAIN ButtonBit : HasBit(bytes[0], ButtonBit[b])}
     \cup (IF mouse_mode = "SCROLLWHEEL"
           THEN CASE bytes[3] > 0 -> {"SCROLL_DOWN"} [] bytes[3] < 0 -> {"SCROLL_UP"}
                  [] OTHER -> {}
           ELSE {})]

\* mutant: the cycle goes on after the last byte
FinishPacket_NoReset(bytes) ==
  /\ mouse_cycle' = mouse_cycle + 1
  /\ packet' = <<Packet(bytes)>> /\ decoded' = Append(decoded, Packet(bytes))

\* finish_packet: an overflown movement is thrown away
FinishPacket(bytes) ==
  /\ mouse_cycle' = 0
  /\ IF HasBit(bytes[0], 128) \/ HasBit(bytes[0], 64)
     THEN UNCHANGED <<packet, decoded>>
     ELSE packet' = <<Packet(bytes)>> /\ decoded' = Append(decoded, Packet(bytes))

\* mutant: the scroll byte is not waited for
LastByte_Third == 2

LastByte == IF mouse_mode = "DEFAULT" THEN 2 ELSE 3

(* A byte of the mouse goes to its place; the first of a packet must have  *)
(* its V bit set.                                                          *)
MouseByte(v) ==
  /\ mouse_byte' = [mouse_byte EXCEPT ![mouse_cycle] = v]
  /\ IF mouse_cycle = LastByte
     THEN FinishPacket(mouse_byte')
     ELSE /\ mouse_cycle' = IF mouse_cycle = 0 /\ ~HasBit(v, 8) THEN 0 ELSE mouse_cycle + 1
          /\ UNCHANGED <<packet, decoded>>

\* while (status & MOUSE_BBIT): a byte of the keyboard is read and forgotten
ReadNext ==
  /\ at = "loop" /\ out # <<>>
  /\ TakeByte(irr)
  /\ IF Src(out) = "aux" THEN MouseByte(Head(out).val)
                         ELSE UNCHANGED <<mouse_cycle, mouse_byte, packet, decoded>>
  /\ UNCHANGED <<at, initVars, deviceVars, stolen, calm>>

\* vesa_mouse_packet(packet), finished or not
PassPacket ==
  /\ at = "loop" /\ out = <<>>
  /\ at' = "none" /\ packet' = <<>>
  /\ UNCHANGED <<ctlVars, initVars, mouse_cycle, mouse_byte, decoded, deviceVars, stolen, calm>>

Handlers == KeyboardHandler \/ MouseHandler \/ ReadNext \/ PassPacket

-----------------------------------------------------------------------------
MouseNext == InitMouse \/ Handlers \/ Devices

(* The CPU goes on, and takes interrupts; the mouse takes what it is sent. *)
Fairness == WF_vars(InitMouse) /\ WF_vars(Handlers) /\ WF_vars(MouseAnswers)

MouseSpec == MouseInit /\ [][MouseNext]_vars /\ Fairness

-----------------------------------------------------------------------------
Byte == -128 .. 255

MouseTypeOK ==
  /\ out \in Seq([src : {"kbd", "aux"}, val : Byte])
  /\ port60 \in Byte /\ irr \subseteq {"kbd", "aux"} /\ config \in 0 .. 255
  /\ mouse.kind \in Mice /\ mouse.reporting \in BOOLEAN /\ mouse.id \in {0, 3}
  /\ inbox \in Seq(Byte)
  /\ step \in 1 .. LastStep + 1
  /\ status \in Byte /\ result \in Byte
  /\ mouse_mode \in {"DEFAULT", "SCROLLWHEEL"}
  /\ mouse_cycle \in 0 .. LastByte
  /\ mouse_byte \in [0 .. 3 -> Byte]
  /\ at \in {"none", "loop"}
  /\ at = "none" => packet = <<>>

(* ps2mouse.c:131 to 153: unless something disturbed init_mouse, the       *)
(* driver expects four-byte packets exactly when the mouse sends them.     *)
ModeAgrees ==
  Initialised /\ calm => (mouse_mode = "SCROLLWHEEL" <=> mouse.id = 3)

\* what a mouse means by a movement
Meaning(m, id) ==
  [x |-> m.x, y |-> m.y,
   buttons |-> m.buttons
     \cup (IF id = 3 /\ m.wheel = 1 THEN {"SCROLL_DOWN"} ELSE {})
     \cup (IF id = 3 /\ m.wheel = -1 THEN {"SCROLL_UP"} ELSE {})]

\* the packets of one more movement: an overflowed one has none
Further(packets, m, id) == IF m.overflow THEN packets ELSE Append(packets, Meaning(m, id))

PacketsOf(moves, id) ==
  LET first[n \in 0 .. Len(moves)] ==
        IF n = 0 THEN <<>> ELSE Further(first[n - 1], moves[n], id)
  IN  first[Len(moves)]

Reported == PacketsOf(sent, mouse.id)

(* ps2mouse.c:31 to 72: the handler finishes the packets the mouse sent,   *)
(* in order, none made of pieces of two, and none is missing when the      *)
(* controller is empty: unless init_mouse was disturbed, or the keyboard's *)
(* handler took a byte of the mouse.                                       *)
PacketsAreWhole ==
  calm /\ ~stolen =>
    /\ IsPrefix(decoded, Reported)
    /\ out = <<>> /\ at = "none" => decoded = Reported

(* ps2mouse.c:120 to 125 and 28 to 77: undisturbed, init_mouse leaves the  *)
(* controller such that every byte of either device is read: a byte that   *)
(* stays blocks both devices for ever.                                     *)
BytesAreServed == (Initialised /\ calm /\ out # <<>>) ~> (out = <<>>)
=============================================================================
