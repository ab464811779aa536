--------------------------- MODULE Ps2MouseProofs ---------------------------
(***************************************************************************)
(* Theorems about the mouse driver and its dialogue with the mouse, for    *)
(* every set of mice, keys and movements and any number of late answers.   *)
(***************************************************************************)
EXTENDS Ps2Mouse, SequenceTheorems, WellFoundedInduction, TLAPS

-----------------------------------------------------------------------------
(* The script, by the position of its steps.                               *)

Ops == {"control", "mouse", "read"} \X ((0 .. 255) \cup {"none", "status", "result"})

Sized(S, s, n) == s \in Seq(S) /\ Len(s) = n
Steps(s, n)    == Sized(Ops, s, n)
Does(s, i, x)  == s[i] = x

(* A longer list: each part at its place.                                  *)
Joins(u, s, n, t, m) ==
  /\ \A i \in 1 .. n : \A x : Does(s, i, x) => Does(u, i, x)
  /\ \A i \in 1 .. m : \A x : Does(t, i, x) => Does(u, n + i, x)

LEMMA Joined ==
  ASSUME NEW S, NEW s, NEW n \in Nat, Sized(S, s, n), NEW t, NEW m \in Nat, Sized(S, t, m)
  PROVE  Sized(S, s \o t, n + m) /\ Joins(s \o t, s, n, t, m)
  <1>1. Sized(S, s \o t, n + m)
    BY DEF Sized
  <1>2. ASSUME NEW i \in 1 .. n PROVE (s \o t)[i] = s[i]
    BY DEF Sized
  <1>3. ASSUME NEW i \in 1 .. m PROVE (s \o t)[n + i] = t[i]
    BY DEF Sized
  <1> QED BY <1>1, <1>2, <1>3 DEF Joins, Does

Asks(s, b) ==
  Steps(s, 2) /\ Does(s, 1, ToMouse(b)) /\ Does(s, 2, Read("none"))

LEMMA AskSteps ==
  ASSUME NEW b \in 0 .. 255
  PROVE  Asks(Ask(b), b)
  BY DEF Asks, Steps, Sized, Does, Ask, ToMouse, Read, Ops

AsksId(s) ==
  /\ Steps(s, 3)
  /\ Does(s, 1, ToMouse(242)) /\ Does(s, 2, Read("none")) /\ Does(s, 3, Read("result"))

LEMMA AskIdSteps == AsksId(AskId)
  <1> DEFINE t == <<Read("result")>>
  <1>1. Steps(t, 1) /\ Does(t, 1, Read("result"))
    BY DEF Steps, Sized, Does, Read, Ops
  <1>2. AskId = Ask(242) \o t
    BY DEF AskId
  <1> HIDE DEF t
  <1>3. Asks(Ask(242), 242)
    BY AskSteps
  <1>4. Steps(AskId, 3) /\ Joins(AskId, Ask(242), 2, t, 1)
    BY <1>1, <1>2, <1>3, Joined, 2 + 1 = 3 DEF Asks, Steps
  <1> QED BY <1>1, <1>3, <1>4 DEF Asks, AsksId, Joins

SetsRate(s, r) ==
  /\ Steps(s, 4)
  /\ Does(s, 1, ToMouse(243)) /\ Does(s, 2, Read("none"))
  /\ Does(s, 3, ToMouse(r)) /\ Does(s, 4, Read("none"))

LEMMA RateSteps ==
  ASSUME NEW r \in 0 .. 255
  PROVE  SetsRate(Rate(r), r)
  <1>1. Rate(r) = Ask(243) \o Ask(r)
    BY DEF Rate
  <1>2. Asks(Ask(243), 243) /\ Asks(Ask(r), r)
    BY AskSteps
  <1>3. Steps(Rate(r), 4) /\ Joins(Rate(r), Ask(243), 2, Ask(r), 2)
    BY <1>1, <1>2, Joined, 2 + 2 = 4 DEF Asks, Steps
  <1> QED BY <1>2, <1>3 DEF Asks, SetsRate, Joins

\* the bytes the mouse is sent
Told ==
  [n \in {5, 7, 9, 12, 14, 16, 18, 20, 22, 24} |->
     CASE n = 5 -> 246 [] n = 7 -> 244 [] n \in {9, 24} -> 242 [] n \in {12, 16, 20} -> 243
       [] n = 14 -> 200 [] n = 18 -> 100 [] n = 22 -> 80]

Acknowledged == {6, 8, 10, 13, 15, 17, 19, 21, 23, 25}

LEMMA ScriptTable ==
  /\ LastStep = 27
  /\ Script[1] = Control(168) /\ Script[2] = Control(32)
  /\ Script[3] = Read("status") /\ Script[4] = Control(96)
  /\ \A n \in DOMAIN Told : Script[n] = ToMouse(Told[n])
  /\ \A n \in Acknowledged : Script[n] = Read("none")
  /\ Script[11] = Read("result") /\ Script[26] = Read("result")
  <1> DEFINE s1 == <<Control(168), Control(32), Read("status"), Control(96)>>
             s2 == s1 \o Ask(246)
             s3 == s2 \o Ask(244)
             s4 == s3 \o AskId
             s5 == s4 \o Rate(200)
             s6 == s5 \o Rate(100)
             s7 == s6 \o Rate(80)
  <1>0. Script = s7 \o AskId
    BY DEF Script
  <1>1. /\ Steps(s1, 4)
        /\ Does(s1, 1, Control(168)) /\ Does(s1, 2, Control(32))
        /\ Does(s1, 3, Read("status")) /\ Does(s1, 4, Control(96))
    BY DEF Steps, Sized, Does, Control, Read, Ops
  <1> HIDE DEF s1
  <1>a. /\ Asks(Ask(246), 246) /\ Asks(Ask(244), 244) /\ AsksId(AskId)
        /\ SetsRate(Rate(200), 200) /\ SetsRate(Rate(100), 100) /\ SetsRate(Rate(80), 80)
    BY AskSteps, AskIdSteps, RateSteps
  <1>2. Steps(s2, 6) /\ Joins(s2, s1, 4, Ask(246), 2)
    BY <1>1, <1>a, Joined, 4 + 2 = 6 DEF Asks, Steps
  <1> HIDE DEF s2
  <1>3. Steps(s3, 8) /\ Joins(s3, s2, 6, Ask(244), 2)
    <2>1. Steps(s2, 6) /\ Steps(Ask(244), 2)
      BY <1>2, <1>a DEF Asks
    <2> QED BY <2>1, Joined, 6 + 2 = 8 DEF Steps
  <1> HIDE DEF s3
  <1>4. Steps(s4, 11) /\ Joins(s4, s3, 8, AskId, 3)
    <2>1. Steps(s3, 8) /\ Steps(AskId, 3)
      BY <1>3, <1>a DEF AsksId
    <2> QED BY <2>1, Joined, 8 + 3 = 11 DEF Steps
  <1> HIDE DEF s4
  <1>5. Steps(s5, 15) /\ Joins(s5, s4, 11, Rate(200), 4)
    <2>1. Steps(s4, 11) /\ Steps(Rate(200), 4)
      BY <1>4, <1>a DEF SetsRate
    <2> QED BY <2>1, Joined, 11 + 4 = 15 DEF Steps
  <1> HIDE DEF s5
  <1>6. Steps(s6, 19) /\ Joins(s6, s5, 15, Rate(100), 4)
    <2>1. Steps(s5, 15) /\ Steps(Rate(100), 4)
      BY <1>5, <1>a DEF SetsRate
    <2> QED BY <2>1, Joined, 15 + 4 = 19 DEF Steps
  <1> HIDE DEF s6
  <1>7. Steps(s7, 23) /\ Joins(s7, s6, 19, Rate(80), 4)
    <2>1. Steps(s6, 19) /\ Steps(Rate(80), 4)
      BY <1>6, <1>a DEF SetsRate
    <2> QED BY <2>1, Joined, 19 + 4 = 23 DEF Steps
  <1> HIDE DEF s7
  <1>8. Steps(Script, 26) /\ Joins(Script, s7, 23, AskId, 3)
    <2>1. Steps(s7, 23) /\ Steps(AskId, 3)
      BY <1>7, <1>a DEF AsksId
    <2> QED BY <1>0, <2>1, Joined, 23 + 3 = 26 DEF Steps
  <1>9. LastStep = 27
    BY <1>8 DEF Steps, Sized, LastStep
  <1> USE DEF Joins
  <1>10. /\ Does(s4, 1, Control(168)) /\ Does(s4, 2, Control(32))
         /\ Does(s4, 3, Read("status")) /\ Does(s4, 4, Control(96))
    BY <1>1, <1>2, <1>3, <1>4
  <1>11. /\ Does(s4, 5, ToMouse(246)) /\ Does(s4, 6, Read("none"))
         /\ Does(s4, 7, ToMouse(244)) /\ Does(s4, 8, Read("none"))
         /\ Does(s4, 9, ToMouse(242)) /\ Does(s4, 10, Read("none")) /\ Does(s4, 11, Read("result"))
    <2>1. Does(s3, 5, ToMouse(246)) /\ Does(s3, 6, Read("none"))
      BY <1>a, <1>2, <1>3 DEF Asks
    <2>2. Does(s3, 7, ToMouse(244)) /\ Does(s3, 8, Read("none"))
      BY <1>a, <1>3 DEF Asks
    <2> QED BY <1>a, <1>4, <2>1, <2>2 DEF AsksId
  <1>12. /\ Does(s6, 12, ToMouse(243)) /\ Does(s6, 13, Read("none"))
         /\ Does(s6, 14, ToMouse(200)) /\ Does(s6, 15, Read("none"))
    BY <1>a, <1>5, <1>6 DEF SetsRate
  <1>13. /\ Does(s6, 16, ToMouse(243)) /\ Does(s6, 17, Read("none"))
         /\ Does(s6, 18, ToMouse(100)) /\ Does(s6, 19, Read("none"))
    BY <1>a, <1>6 DEF SetsRate
  <1>14. /\ Does(s7, 20, ToMouse(243)) /\ Does(s7, 21, Read("none"))
         /\ Does(s7, 22, ToMouse(80)) /\ Does(s7, 23, Read("none"))
    BY <1>a, <1>7 DEF SetsRate
  <1>15. /\ Does(Script, 24, ToMouse(242)) /\ Does(Script, 25, Read("none"))
         /\ Does(Script, 26, Read("result"))
    BY <1>a, <1>8 DEF AsksId
  <1>16. \A i \in 1 .. 11 : \A x : Does(s4, i, x) => Does(s6, i, x)
    BY <1>5, <1>6
  <1>17. \A i \in 1 .. 19 : \A x : Does(s6, i, x) => Does(Script, i, x)
    BY <1>7, <1>8
  <1>18. \A i \in 20 .. 23 : \A x : Does(s7, i, x) => Does(Script, i, x)
    BY <1>8
  <1>19. /\ Does(Script, 1, Control(168)) /\ Does(Script, 2, Control(32))
         /\ Does(Script, 3, Read("status")) /\ Does(Script, 4, Control(96))
         /\ Does(Script, 11, Read("result"))
    BY <1>10, <1>11, <1>16, <1>17
  <1>20. \A n \in DOMAIN Told : Does(Script, n, ToMouse(Told[n]))
    <2>1. /\ Does(Script, 5, ToMouse(246)) /\ Does(Script, 7, ToMouse(244))
          /\ Does(Script, 9, ToMouse(242))
      BY <1>11, <1>16, <1>17
    <2>2. /\ Does(Script, 12, ToMouse(243)) /\ Does(Script, 14, ToMouse(200))
          /\ Does(Script, 16, ToMouse(243)) /\ Does(Script, 18, ToMouse(100))
      BY <1>12, <1>13, <1>17
    <2>3. Does(Script, 20, ToMouse(243)) /\ Does(Script, 22, ToMouse(80))
      BY <1>14, <1>18
    <2> QED BY <1>15, <2>1, <2>2, <2>3 DEF Told
  <1>21. \A n \in Acknowledged : Does(Script, n, Read("none"))
    <2>1. Does(Script, 6, Read("none")) /\ Does(Script, 8, Read("none")) /\ Does(Script, 10, Read("none"))
      BY <1>11, <1>16, <1>17
    <2>2. /\ Does(Script, 13, Read("none")) /\ Does(Script, 15, Read("none"))
          /\ Does(Script, 17, Read("none")) /\ Does(Script, 19, Read("none"))
      BY <1>12, <1>13, <1>17
    <2>3. Does(Script, 21, Read("none")) /\ Does(Script, 23, Read("none"))
      BY <1>14, <1>18
    <2> QED BY <1>15, <2>1, <2>2, <2>3 DEF Acknowledged
  <1> QED BY <1>9, <1>15, <1>19, <1>20, <1>21 DEF Does

LEMMA LastStepIs == LastStep = 27
  BY ScriptTable

(* What init_mouse does at a step.                                         *)
LEMMA StepsOfScript ==
  ASSUME step \in 1 .. LastStep + 1
  PROVE  /\ AtStep("control") =>
              \/ step = 1 /\ Operand = 168
              \/ step = 2 /\ Operand = 32
              \/ step = 4 /\ Operand = 96
         /\ AtStep("mouse") => step \in DOMAIN Told /\ Operand = Told[step]
         /\ AtStep("read") =>
              \/ step = 3 /\ Operand = "status"
              \/ step \in Acknowledged /\ Operand = "none"
              \/ step \in {11, 26} /\ Operand = "result"
  <1>1. step < LastStep =>
          step \in {1, 2, 3, 4, 11, 26} \/ step \in DOMAIN Told \/ step \in Acknowledged
    BY ScriptTable DEF Told, Acknowledged
  <1>2. CASE step \in DOMAIN Told
    BY <1>2, ScriptTable DEF AtStep, Operand, ToMouse
  <1>3. CASE step \in Acknowledged
    BY <1>3, ScriptTable DEF AtStep, Operand, Read
  <1>4. CASE step \in {1, 2, 3, 4, 11, 26}
    BY <1>4, ScriptTable DEF AtStep, Operand, Control, Read
  <1> QED BY <1>1, <1>2, <1>3, <1>4 DEF AtStep

-----------------------------------------------------------------------------
(* The state keeps its type.                                               *)

Message == [src : {"kbd", "aux"}, val : Byte]

MouseIs ==
  mouse \in [kind : Mice, reporting : BOOLEAN, id : {0, 3}, rateNext : BOOLEAN,
             rates : Byte \X Byte \X Byte]

\* before the mouse is told anything, what comes are codes and the command byte
OpeningIsPlain ==
  step <= 4 =>
    /\ inbox = <<>> /\ ~mouse.reporting /\ port60 \in 0 .. 255
    /\ \A i \in 1 .. Len(out) : out[i].val \in 0 .. 255

HandlersWait ==
  step <= LastStep => mouse_cycle = 0 /\ at = "none" /\ mouse_mode = "DEFAULT"

TypeInv ==
  /\ MouseTypeOK /\ MouseIs
  /\ status \in 0 .. 255
  /\ OpeningIsPlain /\ HandlersWait

LEMMA Bits ==
  ASSUME NEW v \in 0 .. 255
  PROVE  WithIrq12(v) \in 0 .. 255 /\ WithoutBit(v, 32) \in 0 .. 255
  BY DEF WithIrq12, WithBit, WithoutBit, HasBit

LEMMA EdgeIsALine ==
  ASSUME NEW bytes \in Seq(Message), NEW cfg
  PROVE  Edge(bytes, cfg) \subseteq {"kbd", "aux"}
  <1>1. bytes # <<>> => Head(bytes) \in Message
    OBVIOUS
  <1>2. bytes # <<>> => Src(bytes) \in {"kbd", "aux"}
    BY <1>1 DEF Src, Message
  <1> QED BY <1>2 DEF Edge

\* bytes have come behind those that wait
Came(values) ==
  /\ out' \in Seq(Message) /\ irr' \subseteq {"kbd", "aux"}
  /\ Len(out') = Len(out) + Len(values)
  /\ \A i \in 1 .. Len(out) : out'[i] = out[i]
  /\ \A i \in 1 .. Len(values) : out'[Len(out) + i].val = values[i]

LEMMA ArriveEffect ==
  ASSUME out \in Seq(Message), irr \subseteq {"kbd", "aux"},
         NEW src \in {"kbd", "aux"}, NEW values \in Seq(Byte), Arrive(src, values)
  PROVE  Came(values)
  <1> DEFINE bytes == [i \in 1 .. Len(values) |-> [src |-> src, val |-> values[i]]]
  <1>1. /\ bytes \in Seq(Message) /\ Len(bytes) = Len(values)
        /\ \A i \in 1 .. Len(values) : bytes[i].val = values[i]
    BY DEF Message
  <1>2. out' = out \o bytes /\ irr' = irr \cup (IF out = <<>> THEN Edge(bytes, config) ELSE {})
    BY DEF Arrive
  <1> HIDE DEF bytes
  <1>3. irr' \subseteq {"kbd", "aux"}
    BY <1>1, <1>2, EdgeIsALine
  <1>4. /\ out' \in Seq(Message) /\ Len(out') = Len(out) + Len(values)
        /\ \A i \in 1 .. Len(out) : out'[i] = out[i]
        /\ \A i \in 1 .. Len(values) : out'[Len(out) + i] = bytes[i]
    <2>1. Sized(Message, out, Len(out)) /\ Sized(Message, bytes, Len(values))
      BY <1>1 DEF Sized
    <2>2. Len(out) \in Nat /\ Len(values) \in Nat
      OBVIOUS
    <2>3. /\ Sized(Message, out \o bytes, Len(out) + Len(values))
          /\ Joins(out \o bytes, out, Len(out), bytes, Len(values))
      BY <2>1, <2>2, Joined
    <2> QED BY <1>2, <2>3 DEF Sized, Joins, Does
  <1> QED BY <1>1, <1>3, <1>4 DEF Came

\* the first byte has gone, if there was one
Gone ==
  /\ out' \in Seq(Message) /\ irr' \subseteq {"kbd", "aux"}
  /\ ByteRead \in Byte /\ port60' = ByteRead
  /\ out = <<>> => out' = <<>>
  /\ out # <<>> => /\ Len(out') = Len(out) - 1
                   /\ \A i \in 1 .. Len(out) - 1 : out'[i] = out[i + 1]

LEMMA TakeEffect ==
  ASSUME out \in Seq(Message), port60 \in Byte, NEW latched \in SUBSET {"kbd", "aux"},
         TakeByte(latched)
  PROVE  Gone
  <1>1. CASE out = <<>>
    BY <1>1 DEF TakeByte, Gone, ByteRead
  <1>2. CASE out # <<>>
    <2>1. out' = Tail(out) /\ port60' = Head(out).val /\ irr' = latched \cup Edge(Tail(out), config)
      BY <1>2 DEF TakeByte
    <2>2. Tail(out) \in Seq(Message) /\ Head(out) \in Message
      BY <1>2
    <2>3. Edge(Tail(out), config) \subseteq {"kbd", "aux"}
      BY <2>2, EdgeIsALine
    <2>4. /\ Len(Tail(out)) = Len(out) - 1
          /\ \A i \in 1 .. Len(out) - 1 : Tail(out)[i] = out[i + 1]
      BY <1>2
    <2> QED BY <1>2, <2>1, <2>2, <2>3, <2>4 DEF Gone, ByteRead, Message
  <1> QED BY <1>1, <1>2

\* the byte read is one of those that wait, or the last one again
LEMMA ByteReadIs ==
  ASSUME out \in Seq(Message)
  PROVE  ByteRead = IF out = <<>> THEN port60 ELSE out[1].val
  BY DEF ByteRead

LEMMA CamePlain ==
  ASSUME out \in Seq(Message), \A i \in 1 .. Len(out) : out[i].val \in 0 .. 255,
         NEW v \in 0 .. 255, Came(<<v>>)
  PROVE  \A i \in 1 .. Len(out') : out'[i].val \in 0 .. 255
  <1>1. Len(<<v>>) = 1 /\ <<v>>[1] = v
    OBVIOUS
  <1>2. Len(out) \in Nat /\ Len(out') = Len(out) + 1 /\ out'[Len(out) + 1].val = v
    BY <1>1 DEF Came
  <1>3. \A i \in 1 .. Len(out) : out'[i].val \in 0 .. 255
    BY DEF Came
  <1> SUFFICES ASSUME NEW i \in 1 .. Len(out') PROVE out'[i].val \in 0 .. 255
    OBVIOUS
  <1>4. i = Len(out) + 1 \/ i \in 1 .. Len(out)
    BY <1>2
  <1> QED BY <1>2, <1>3, <1>4

LEMMA GonePlain ==
  ASSUME out \in Seq(Message), \A i \in 1 .. Len(out) : out[i].val \in 0 .. 255, Gone
  PROVE  \A i \in 1 .. Len(out') : out'[i].val \in 0 .. 255
  <1> SUFFICES ASSUME NEW i \in 1 .. Len(out') PROVE out'[i].val \in 0 .. 255
    OBVIOUS
  <1>1. out # <<>>
    BY DEF Gone
  <1>2. i \in 1 .. Len(out) - 1 /\ Len(out) \in Nat
    BY <1>1 DEF Gone
  <1>3. out'[i] = out[i + 1] /\ i + 1 \in 1 .. Len(out)
    BY <1>1, <1>2 DEF Gone
  <1> QED BY <1>3

LEMMA ToldBytes == \A n \in DOMAIN Told : n \in 5 .. 24 /\ Told[n] \in 80 .. 246
  BY DEF Told

LEMMA InitType == MouseInit => TypeInv
  <1> SUFFICES ASSUME MouseInit PROVE TypeInv
    OBVIOUS
  <1>1. MouseIs
    <2>1. <<0, 0, 0>> \in Byte \X Byte \X Byte
      BY DEF Byte
    <2> QED BY <2>1 DEF MouseInit, MouseIs
  <1>2. MouseTypeOK
    BY LastStepIs, <1>1 DEF MouseInit, MouseTypeOK, MouseIs, Byte, LastByte
  <1> QED BY <1>1, <1>2, LastStepIs DEF MouseInit, TypeInv, OpeningIsPlain, HandlersWait

LEMMA ControlStepType ==
  ASSUME TypeInv, ControlStep
  PROVE  TypeInv'
  <1>1. /\ out \in Seq(Message) /\ irr \subseteq {"kbd", "aux"} /\ config \in 0 .. 255
        /\ step \in 1 .. 26 /\ step' = step + 1 /\ status \in 0 .. 255
    <2>1. AtStep("control") /\ step' = step + 1
      BY DEF ControlStep
    <2> QED BY <2>1, LastStepIs DEF TypeInv, MouseTypeOK, Message, AtStep
  <1>2. /\ UNCHANGED <<port60, status, result, late, mouse_mode, mouse_cycle, mouse_byte, at, packet,
                       decoded, mouse, inbox, sent, strokes>>
    BY DEF ControlStep, cycleVars, deviceVars
  <1>3. \/ step = 1 /\ Operand = 168
        \/ step = 2 /\ Operand = 32
        \/ step = 4 /\ Operand = 96
    BY <1>1, LastStepIs, StepsOfScript DEF ControlStep
  <1>4. /\ config' \in 0 .. 255 /\ out' \in Seq(Message) /\ irr' \subseteq {"kbd", "aux"}
        /\ step' <= 4 => \A i \in 1 .. Len(out') : out'[i].val \in 0 .. 255
    <2>1. CASE step = 1 /\ Operand = 168
      <3>1. config' = WithoutBit(config, 32) /\ out' = out /\ irr' = irr
        BY <2>1 DEF ControlStep
      <3>2. config' \in 0 .. 255
        BY <1>1, <3>1, Bits
      <3>3. \A i \in 1 .. Len(out) : out[i].val \in 0 .. 255
        BY <2>1 DEF TypeInv, OpeningIsPlain
      <3> QED BY <1>1, <3>1, <3>2, <3>3
    <2>2. CASE step = 2 /\ Operand = 32
      <3>1. config' = config /\ Arrive("kbd", <<config>>)
        BY <2>2 DEF ControlStep
      <3>2. <<config>> \in Seq(Byte)
        BY <1>1 DEF Byte
      <3>3. Came(<<config>>)
        BY <1>1, <3>1, <3>2, ArriveEffect
      <3>4. \A i \in 1 .. Len(out') : out'[i].val \in 0 .. 255
        <4>1. \A i \in 1 .. Len(out) : out[i].val \in 0 .. 255
          BY <2>2 DEF TypeInv, OpeningIsPlain
        <4>2. config \in 0 .. 255 /\ out \in Seq(Message)
          BY <1>1
        <4> QED BY <3>3, <4>1, <4>2, CamePlain
      <3> QED BY <1>1, <3>1, <3>3, <3>4 DEF Came
    <2>3. CASE step = 4 /\ Operand = 96
      <3>1. config' = status /\ out' = out /\ irr' = irr \cup Edge(out, config')
        BY <2>3 DEF ControlStep
      <3>2. Edge(out, config') \subseteq {"kbd", "aux"}
        BY <1>1, EdgeIsALine
      <3>3. config' \in 0 .. 255 /\ step' = 5
        BY <1>1, <2>3, <3>1
      <3>4. out' \in Seq(Message) /\ irr' \subseteq {"kbd", "aux"}
        BY <1>1, <3>1, <3>2
      <3> QED BY <3>3, <3>4
    <2> QED BY <1>3, <2>1, <2>2, <2>3
  <1>5. OpeningIsPlain'
    BY <1>1, <1>2, <1>4 DEF TypeInv, OpeningIsPlain
  <1>6. MouseTypeOK'
    BY <1>1, <1>2, <1>4, LastStepIs DEF TypeInv, MouseTypeOK, LastByte, Message
  <1> QED BY <1>1, <1>2, <1>5, <1>6, LastStepIs DEF TypeInv, MouseIs, HandlersWait

LEMMA MouseWriteType ==
  ASSUME TypeInv, MouseWrite
  PROVE  TypeInv'
  <1>a. step \in DOMAIN Told /\ Operand = Told[step]
    <2>1. step \in 1 .. LastStep + 1 /\ AtStep("mouse")
      BY DEF TypeInv, MouseTypeOK, MouseWrite
    <2> QED BY <2>1, StepsOfScript
  <1>1. /\ step' = step + 1 /\ inbox' = Append(inbox, Operand)
        /\ UNCHANGED <<out, irr, port60, config, status, result, late, mouse_mode, mouse_cycle,
                       mouse_byte, at, packet, decoded, mouse, sent, strokes>>
    BY DEF MouseWrite, ctlVars, cycleVars
  <1>2. step \in 5 .. 24 /\ Operand \in Byte
    <2>1. step \in 5 .. 24 /\ Told[step] \in 80 .. 246
      BY <1>a, ToldBytes
    <2> QED BY <1>a, <2>1 DEF Byte
  <1>3. step' \in 6 .. 25 /\ inbox' \in Seq(Byte)
    <2>1. step' = step + 1 /\ inbox' = Append(inbox, Operand)
      BY <1>1
    <2> QED BY <1>2, <2>1 DEF TypeInv, MouseTypeOK
  <1>4. UNCHANGED <<out, irr, port60, config, status, result, mouse_mode, mouse_cycle, mouse_byte,
                    at, packet, mouse>>
    BY <1>1
  <1>5. MouseTypeOK'
    BY <1>3, <1>4, LastStepIs DEF TypeInv, MouseTypeOK, LastByte
  <1>6. OpeningIsPlain'
    BY <1>3 DEF OpeningIsPlain
  <1>7. HandlersWait'
    BY <1>2, <1>4, LastStepIs DEF TypeInv, HandlersWait
  <1>8. MouseIs' /\ status' \in 0 .. 255
    BY <1>4 DEF TypeInv, MouseIs
  <1> QED BY <1>5, <1>6, <1>7, <1>8 DEF TypeInv

LEMMA MouseReadType ==
  ASSUME TypeInv, MouseRead
  PROVE  TypeInv'
  <1>a. /\ out \in Seq(Message) /\ irr \subseteq {"kbd", "aux"} /\ port60 \in Byte
    BY DEF TypeInv, MouseTypeOK, Message
  <1>b. step \in 1 .. 26
    <2>1. step \in 1 .. LastStep + 1 /\ step < LastStep
      BY DEF TypeInv, MouseTypeOK, MouseRead, AtStep
    <2> QED BY <2>1, LastStepIs
  <1>c. /\ step' = step + 1
        /\ status' = IF Operand = "status" THEN WithIrq12(ByteRead) ELSE status
        /\ result' = IF Operand = "result" THEN ByteRead ELSE result
        /\ TakeByte(irr)
        /\ UNCHANGED <<config, mouse_mode, mouse_cycle, mouse_byte, at, packet, decoded, mouse,
                       inbox, sent, strokes>>
    BY DEF MouseRead, cycleVars, deviceVars
  <1>1. /\ out \in Seq(Message) /\ irr \subseteq {"kbd", "aux"} /\ port60 \in Byte
        /\ step \in 1 .. 26 /\ step' = step + 1
        /\ status' = IF Operand = "status" THEN WithIrq12(ByteRead) ELSE status
        /\ result' = IF Operand = "result" THEN ByteRead ELSE result
        /\ TakeByte(irr)
        /\ UNCHANGED <<config, mouse_mode, mouse_cycle, mouse_byte, at, packet, decoded, mouse,
                       inbox, sent, strokes>>
    BY <1>a, <1>b, <1>c
  <1>2. Gone
    BY <1>1, TakeEffect
  <1>3. Operand = "status" => step = 3
    BY <1>1, LastStepIs, StepsOfScript DEF MouseRead
  <1>4. step <= 4 => ByteRead \in 0 .. 255
    <2>1. out # <<>> => 1 \in 1 .. Len(out)
      BY <1>1
    <2> SUFFICES ASSUME step <= 4 PROVE ByteRead \in 0 .. 255
      OBVIOUS
    <2>2. port60 \in 0 .. 255 /\ \A i \in 1 .. Len(out) : out[i].val \in 0 .. 255
      BY DEF TypeInv, OpeningIsPlain
    <2>3. ByteRead = IF out = <<>> THEN port60 ELSE out[1].val
      BY <1>1, ByteReadIs
    <2> QED BY <2>1, <2>2, <2>3
  <1>5. status' \in 0 .. 255 /\ result' \in Byte
    <2>1. status \in 0 .. 255 /\ result \in Byte /\ ByteRead \in Byte
      BY <1>2 DEF TypeInv, MouseTypeOK, Gone
    <2>2. ASSUME Operand = "status" PROVE WithIrq12(ByteRead) \in 0 .. 255
      <3>1. ByteRead \in 0 .. 255
        BY <1>3, <1>4, <2>2
      <3> HIDE <1>1
      <3> QED BY <3>1, Bits
    <2> QED BY <1>1, <2>1, <2>2
  <1>6. OpeningIsPlain'
    <2> SUFFICES ASSUME step' <= 4 PROVE \A i \in 1 .. Len(out') : out'[i].val \in 0 .. 255
      BY <1>1, <1>2, <1>4 DEF OpeningIsPlain, TypeInv, Gone
    <2> QED BY <1>1, <1>2, GonePlain DEF TypeInv, OpeningIsPlain
  <1>7. status' \in Byte
    BY <1>5 DEF Byte
  <1>8. MouseTypeOK'
    BY <1>1, <1>2, <1>5, <1>7, LastStepIs DEF TypeInv, MouseTypeOK, LastByte, Gone, Message
  <1> QED BY <1>1, <1>5, <1>6, <1>8, LastStepIs DEF TypeInv, MouseIs, HandlersWait

LEMMA FinishInitType ==
  ASSUME TypeInv, FinishInit
  PROVE  TypeInv'
  <1>1. /\ out \in Seq(Message) /\ irr \subseteq {"kbd", "aux"} /\ port60 \in Byte
        /\ step = 27 /\ step' = step + 1 /\ TakeByte(irr)
        /\ mouse_mode' \in {"DEFAULT", "SCROLLWHEEL"}
        /\ UNCHANGED <<config, status, result, late, mouse_cycle, mouse_byte, at, packet, decoded,
                       mouse, inbox, sent, strokes>>
    BY LastStepIs DEF TypeInv, MouseTypeOK, Message, FinishInit, cycleVars, deviceVars
  <1>2. Gone
    BY <1>1, TakeEffect
  <1>3. mouse_cycle = 0 /\ at = "none"
    BY <1>1, LastStepIs DEF TypeInv, HandlersWait
  <1>4. MouseTypeOK'
    BY <1>1, <1>2, <1>3, LastStepIs DEF TypeInv, MouseTypeOK, LastByte, Gone, Message
  <1> QED BY <1>1, <1>4, LastStepIs DEF TypeInv, MouseIs, HandlersWait, OpeningIsPlain

\* the handlers and the devices leave the script, and these variables, alone
Apart ==
  /\ UNCHANGED <<step, status, result, mouse_mode, config>>
  /\ out' \in Seq(Message) /\ port60' \in Byte /\ irr' \subseteq {"kbd", "aux"}

LEMMA HandlersType ==
  ASSUME TypeInv, Handlers
  PROVE  TypeInv'
  <1>1. /\ out \in Seq(Message) /\ irr \subseteq {"kbd", "aux"} /\ port60 \in Byte
        /\ step \in 1 .. 28 /\ mouse_byte \in [0 .. 3 -> Byte]
    BY LastStepIs DEF TypeInv, MouseTypeOK, Message
  <1>2. step = 28 /\ UNCHANGED <<mouse, inbox, status>> /\ Apart
    <2>1. UNCHANGED <<mouse, inbox, status, step, result, mouse_mode, config>>
      BY DEF Handlers, KeyboardHandler, MouseHandler, ReadNext, PassPacket, initVars, deviceVars
    <2>2. step = 28
      BY <1>1, LastStepIs
         DEF Handlers, KeyboardHandler, MouseHandler, ReadNext, PassPacket, Initialised, TypeInv,
             HandlersWait
    <2>3. out' \in Seq(Message) /\ port60' \in Byte /\ irr' \subseteq {"kbd", "aux"}
      <3>1. CASE \E latched \in SUBSET {"kbd", "aux"} : TakeByte(latched)
        BY <1>1, <3>1, TakeEffect DEF Gone
      <3>2. CASE MouseHandler
        BY <1>1, <3>2 DEF MouseHandler
      <3>3. CASE PassPacket
        BY <1>1, <3>3 DEF PassPacket, ctlVars
      <3>4. KeyboardHandler => TakeByte(irr \ {"kbd"})
        BY DEF KeyboardHandler
      <3>5. ReadNext => TakeByte(irr)
        BY DEF ReadNext
      <3> QED BY <1>1, <3>1, <3>2, <3>3, <3>4, <3>5 DEF Handlers
    <2> QED BY <2>1, <2>2, <2>3 DEF Apart
  <1>3. /\ mouse_cycle' \in 0 .. LastByte /\ mouse_byte' \in [0 .. 3 -> Byte]
        /\ at' \in {"none", "loop"} /\ (at' = "none" => packet' = <<>>)
    <2>0. /\ mouse_cycle \in 0 .. LastByte /\ LastByte \in {2, 3} /\ at \in {"none", "loop"}
          /\ (at = "none" => packet = <<>>)
      BY DEF TypeInv, MouseTypeOK, LastByte
    <2>1. CASE KeyboardHandler
      BY <1>1, <2>0, <2>1 DEF KeyboardHandler, cycleVars
    <2>2. CASE MouseHandler
      BY <1>1, <2>0, <2>2 DEF MouseHandler
    <2>3. CASE PassPacket
      BY <1>1, <2>0, <2>3 DEF PassPacket
    <2>4. CASE ReadNext /\ Src(out) # "aux"
      BY <1>1, <2>0, <2>4 DEF ReadNext
    <2>5. CASE ReadNext /\ Src(out) = "aux"
      <3> DEFINE v == Head(out).val
      <3>1. at = "loop" /\ at' = "loop" /\ MouseByte(v)
        BY <2>5 DEF ReadNext
      <3>2. v \in Byte
        <4>1. Head(out) \in Message
          BY <1>1, <2>5 DEF ReadNext
        <4> QED BY <4>1 DEF Message
      <3> HIDE DEF v
      <3>3. mouse_byte' = [mouse_byte EXCEPT ![mouse_cycle] = v]
        BY <3>1 DEF MouseByte
      <3>4. mouse_cycle' \in 0 .. LastByte
        <4>1. CASE mouse_cycle = LastByte
          BY <2>0, <3>1, <4>1 DEF MouseByte, FinishPacket
        <4>2. CASE mouse_cycle # LastByte
          BY <2>0, <3>1, <4>2 DEF MouseByte
        <4> QED BY <4>1, <4>2
      <3> QED BY <1>1, <2>0, <3>1, <3>2, <3>3, <3>4
    <2> QED BY <2>1, <2>2, <2>3, <2>4, <2>5 DEF Handlers
  <1>4. MouseTypeOK'
    <2>1. LastByte' = LastByte
      BY <1>2 DEF LastByte, Apart
    <2> QED BY <1>2, <1>3, <2>1, LastStepIs DEF TypeInv, MouseTypeOK, Apart, Message
  <1> QED BY <1>1, <1>2, <1>4, LastStepIs DEF TypeInv, MouseIs, HandlersWait, OpeningIsPlain, Apart

LEMMA EncodedBytes ==
  ASSUME MouseAssumption, NEW m \in Moves, NEW id
  PROVE  Encoded(m, id) \in Seq(Byte)
  <1>1. m.x \in Byte /\ m.y \in Byte /\ m.wheel \in Byte
    BY DEF MouseAssumption, Byte
  <1> DEFINE bits(b) == IF b \in m.buttons THEN ButtonBit[b] ELSE 0
             first == 8 + bits("LEFT") + bits("RIGHT") + bits("MIDDLE")
                        + (IF m.overflow THEN 64 ELSE 0)
  <1>2. first \in Byte
    <2>1. bits("LEFT") \in 0 .. 4 /\ bits("RIGHT") \in 0 .. 4 /\ bits("MIDDLE") \in 0 .. 4
      BY DEF ButtonBit
    <2> HIDE DEF bits
    <2> QED BY <2>1 DEF Byte
  <1>3. Encoded(m, id) = <<first, m.x, m.y>> \o (IF id = 3 THEN <<m.wheel>> ELSE <<>>)
    BY DEF Encoded
  <1> HIDE DEF first
  <1>4. <<first, m.x, m.y>> \in Seq(Byte) /\ <<m.wheel>> \in Seq(Byte) /\ <<>> \in Seq(Byte)
    BY <1>1, <1>2
  <1> QED BY <1>3, <1>4

\* what the mouse answers, and how it is afterwards
LEMMA MouseTakes ==
  ASSUME TypeInv, NEW b \in Byte
  PROVE  /\ Answers(mouse, b) \in Seq(Byte)
         /\ After(mouse, b) \in [kind : Mice, reporting : BOOLEAN, id : {0, 3}, rateNext : BOOLEAN,
                                 rates : Byte \X Byte \X Byte]
  <1>1. mouse \in [kind : Mice, reporting : BOOLEAN, id : {0, 3}, rateNext : BOOLEAN,
                   rates : Byte \X Byte \X Byte]
    BY DEF TypeInv, MouseIs
  <1>2. <<Ack>> \in Seq(Byte) /\ <<Ack, mouse.id>> \in Seq(Byte)
    BY <1>1 DEF Ack, Byte
  <1>3. Answers(mouse, b) \in {<<Ack>>, <<Ack, mouse.id>>}
    BY DEF Answers
  <1>4. After(mouse, b) \in [kind : Mice, reporting : BOOLEAN, id : {0, 3}, rateNext : BOOLEAN,
                             rates : Byte \X Byte \X Byte]
    <2>1. <<mouse.rates[2], mouse.rates[3], b>> \in Byte \X Byte \X Byte
      BY <1>1
    <2>2. CASE mouse.rateNext
      BY <1>1, <2>1, <2>2 DEF After
    <2>3. CASE ~mouse.rateNext
      BY <1>1, <2>3 DEF After
    <2> QED BY <2>2, <2>3
  <1> QED BY <1>2, <1>3, <1>4

LEMMA DevicesType ==
  ASSUME TypeInv, Devices
  PROVE  TypeInv'
  <1>1. /\ out \in Seq(Message) /\ irr \subseteq {"kbd", "aux"} /\ port60 \in Byte
        /\ step \in 1 .. 28 /\ inbox \in Seq(Byte)
    BY LastStepIs DEF TypeInv, MouseTypeOK, Message
  <1>2. /\ UNCHANGED <<step, status, result, mouse_mode, config, port60, mouse_cycle, mouse_byte, at,
                       packet>>
    BY DEF Devices, MouseAnswers, Move, KeyStroke, initVars, cycleVars
  <1>3. /\ out' \in Seq(Message) /\ irr' \subseteq {"kbd", "aux"} /\ inbox' \in Seq(Byte) /\ MouseIs'
        /\ step <= 4 => /\ inbox' = <<>> /\ ~mouse'.reporting
                        /\ \A i \in 1 .. Len(out') : out'[i].val \in 0 .. 255
    <2>1. CASE MouseAnswers
      <3>1. inbox # <<>> /\ ~(step <= 4) /\ inbox' \in Seq(Byte) /\ Head(inbox) \in Byte
        BY <1>1, <2>1 DEF MouseAnswers, TypeInv, OpeningIsPlain
      <3>2. CASE mouse.kind = "absent"
        BY <1>1, <2>1, <3>1, <3>2 DEF MouseAnswers, TypeInv, MouseIs
      <3>3. CASE mouse.kind # "absent"
        <4>1. Arrive("aux", Answers(mouse, Head(inbox))) /\ mouse' = After(mouse, Head(inbox))
          BY <2>1, <3>3 DEF MouseAnswers
        <4>2. Came(Answers(mouse, Head(inbox)))
          BY <1>1, <3>1, <4>1, MouseTakes, ArriveEffect
        <4>3. MouseIs'
          BY <3>1, <4>1, MouseTakes DEF MouseIs
        <4> QED BY <3>1, <4>2, <4>3 DEF Came
      <3> QED BY <3>2, <3>3
    <2>2. CASE \E m \in Moves : Move(m)
      <3>1. PICK m \in Moves : Move(m)
        BY <2>2
      <3>2. mouse.reporting /\ mouse' = mouse /\ inbox' = inbox /\ Arrive("aux", Encoded(m, mouse.id))
        BY <3>1 DEF Move
      <3>3. Came(Encoded(m, mouse.id))
        BY <1>1, <3>2, MouseAssumption, EncodedBytes, ArriveEffect
      <3> QED BY <1>1, <3>2, <3>3 DEF Came, TypeInv, MouseIs, OpeningIsPlain
    <2>3. CASE \E k \in Keys : KeyStroke(k)
      <3>1. PICK k \in Keys : KeyStroke(k)
        BY <2>3
      <3>2. mouse' = mouse /\ inbox' = inbox /\ Arrive("kbd", <<k>>) /\ k \in 1 .. 127
        BY <3>1, MouseAssumption DEF KeyStroke
      <3>3. <<k>> \in Seq(Byte) /\ k \in 0 .. 255
        BY <3>2 DEF Byte
      <3>4. Came(<<k>>)
        BY <1>1, <3>2, <3>3, ArriveEffect
      <3>5. step <= 4 => \A i \in 1 .. Len(out') : out'[i].val \in 0 .. 255
        BY <1>1, <3>3, <3>4, CamePlain DEF TypeInv, OpeningIsPlain
      <3> QED BY <1>1, <3>2, <3>4, <3>5 DEF Came, TypeInv, MouseIs, OpeningIsPlain
    <2> QED BY <2>1, <2>2, <2>3 DEF Devices
  <1>4. MouseTypeOK'
    <2>1. LastByte' = LastByte
      BY <1>2 DEF LastByte
    <2>2. mouse'.kind \in Mice /\ mouse'.reporting \in BOOLEAN /\ mouse'.id \in {0, 3}
      BY <1>3 DEF MouseIs
    <2> QED BY <1>2, <1>3, <2>1, <2>2, LastStepIs DEF TypeInv, MouseTypeOK, Message
  <1> QED BY <1>1, <1>2, <1>3, <1>4, LastStepIs DEF TypeInv, HandlersWait, OpeningIsPlain

LEMMA TypeStep == TypeInv /\ [MouseNext]_vars => TypeInv'
  <1> SUFFICES ASSUME TypeInv, [MouseNext]_vars PROVE TypeInv'
    OBVIOUS
  <1>1. CASE InitMouse
    BY <1>1, ControlStepType, MouseWriteType, MouseReadType, FinishInitType DEF InitMouse
  <1>2. CASE Handlers
    BY <1>2, HandlersType
  <1>3. CASE Devices
    BY <1>3, DevicesType
  <1>4. CASE UNCHANGED vars
    BY <1>4 DEF TypeInv, MouseTypeOK, MouseIs, OpeningIsPlain, HandlersWait, LastByte, vars, ctlVars,
                initVars, cycleVars, deviceVars
  <1> QED BY <1>1, <1>2, <1>3, <1>4 DEF MouseNext

LEMMA TypeInvariant == MouseSpec => []TypeInv
  BY InitType, TypeStep, PTL DEF MouseSpec

(* Whatever the devices send and however late they answer, mouse_handler   *)
(* writes to its four bytes only (ps2mouse.c:31-59) and init_mouse writes  *)
(* back a command byte (120-129).                                          *)
THEOREM MouseTypeCorrect == MouseSpec => []MouseTypeOK
  BY TypeInvariant, PTL DEF TypeInv

-----------------------------------------------------------------------------
(* The dialogue of init_mouse, as long as nothing disturbs it.             *)

\* the step up to which the mouse has been told and has listened
Heard == IF inbox = <<>> THEN step ELSE step - 1

Waiting(n) ==
  IF n \in {10, 25} THEN 2 ELSE IF n \in Acknowledged \cup {3, 11, 26} THEN 1 ELSE 0

RateFollows(n) == n \in {13, 14, 17, 18, 21, 22}

RatesHeard(n) ==
  IF n <= 14 THEN <<0, 0, 0>> ELSE IF n <= 18 THEN <<0, 0, 200>>
  ELSE IF n <= 22 THEN <<0, 200, 100>> ELSE <<200, 100, 80>>

IdHeard(m, n) == IF m.kind = "wheel" /\ n >= 23 THEN 3 ELSE 0

MouseIsAt(m, n) ==
  /\ m.rateNext <=> RateFollows(n)
  /\ m.rates = RatesHeard(n)
  /\ m.id = IdHeard(m, n)

\* one byte at a time, each answered before the next, and the last answer is the id
Dialogue ==
  /\ inbox = <<>> \/ (step - 1 \in DOMAIN Told /\ inbox = <<Told[step - 1]>>)
  /\ Len(out) = IF inbox = <<>> THEN Waiting(step) ELSE 0
  /\ MouseIsAt(mouse, Heard)
  /\ step \in {25, 26} /\ inbox = <<>> => out[Len(out)].val = mouse.id
  /\ step = LastStep => result = mouse.id

\* nobody answers: every later read is of the command byte again
NoDialogue ==
  /\ mouse.id = 0 /\ result \in {0, 65}
  /\ Len(out) = IF step = 3 THEN 1 ELSE 0
  /\ step = 1 => config \in {65, 97}
  /\ step = 2 => config = 65
  /\ step = 3 => out[1].val = 65
  /\ step >= 4 => port60 = 65

Agreed ==
  /\ mouse_mode = "SCROLLWHEEL" <=> mouse.id = 3
  /\ mouse.kind # "absent" => inbox = <<>>

Absent  == calm /\ step <= LastStep /\ mouse.kind = "absent" => NoDialogue
Present == calm /\ step <= LastStep /\ mouse.kind # "absent" => Dialogue
After28 == calm /\ step > LastStep => Agreed

ModeInv == TypeInv /\ Absent /\ Present /\ After28

\* where a step of the script is among the others
LEMMA ScriptPlaces ==
  /\ \A n \in DOMAIN Told :
       n \in 5 .. 24 /\ n - 1 \notin DOMAIN Told /\ Waiting(n) = 0 /\ n + 1 \in Acknowledged
  /\ \A n \in Acknowledged \cup {3, 11, 26} :
       /\ n \in 3 .. 26 /\ Waiting(n) >= 1 /\ Waiting(n + 1) = Waiting(n) - 1
       /\ RateFollows(n + 1) <=> RateFollows(n)
       /\ RatesHeard(n + 1) = RatesHeard(n)
       /\ \A m : IdHeard(m, n + 1) = IdHeard(m, n)
  <1>1. \A n \in DOMAIN Told :
          n \in 5 .. 24 /\ n - 1 \notin DOMAIN Told /\ Waiting(n) = 0 /\ n + 1 \in Acknowledged
    BY DEF Told, Waiting, Acknowledged
  <1>2. ASSUME NEW n \in Acknowledged \cup {3, 11, 26}
        PROVE  n \in 3 .. 26 /\ Waiting(n) >= 1 /\ Waiting(n + 1) = Waiting(n) - 1
    BY DEF Waiting, Acknowledged
  <1>3. ASSUME NEW n \in Acknowledged \cup {3, 11, 26}
        PROVE  /\ RateFollows(n + 1) <=> RateFollows(n)
               /\ n <= 14 <=> n + 1 <= 14
               /\ n <= 18 <=> n + 1 <= 18
               /\ n <= 22 <=> n + 1 <= 22
               /\ n >= 23 <=> n + 1 >= 23
    BY DEF RateFollows, Acknowledged
  <1> QED BY <1>1, <1>2, <1>3 DEF RatesHeard, IdHeard

(* A mouse that has listened up to a byte listens to it.                   *)
LEMMA MouseListens ==
  ASSUME NEW m, m \in [kind : Mice, reporting : BOOLEAN, id : {0, 3}, rateNext : BOOLEAN,
                       rates : Byte \X Byte \X Byte],
         NEW n \in DOMAIN Told, MouseIsAt(m, n)
  PROVE  /\ MouseIsAt(After(m, Told[n]), n + 1)
         /\ After(m, Told[n]).kind = m.kind
         /\ Len(Answers(m, Told[n])) = Waiting(n + 1)
         /\ n = 24 => Answers(m, Told[n])[2] = After(m, Told[n]).id
  <1> DEFINE b == Told[n]
             a == After(m, b)
  <1>1. /\ m.rateNext <=> n \in {14, 18, 22}
        /\ n \in {14, 18, 22} <=> n \in {13, 14, 17, 18, 21, 22}
        /\ n + 1 \in {13, 17, 21} <=> RateFollows(n + 1)
        /\ n \in {12, 16, 20} <=> n + 1 \in {13, 17, 21}
    BY DEF MouseIsAt, RateFollows, Told
  <1>2. Told[14] = 200 /\ Told[18] = 100 /\ Told[22] = 80
    BY DEF Told
  <1>3. CASE n \in {14, 18, 22}
    <2> DEFINE rates == <<m.rates[2], m.rates[3], b>>
    <2>1. a = [m EXCEPT !.rateNext = FALSE, !.rates = rates,
                        !.id = IF m.kind = "wheel" /\ rates = <<200, 100, 80>> THEN 3 ELSE m.id]
      BY <1>1, <1>3 DEF After
    <2>2. rates = RatesHeard(n + 1)
      BY <1>2, <1>3 DEF MouseIsAt, RatesHeard
    <2>3. rates = <<200, 100, 80>> <=> n = 22
      <3>1. CASE n = 14
        BY <1>2, <3>1 DEF MouseIsAt, RatesHeard
      <3>2. CASE n = 18
        BY <1>2, <3>2 DEF MouseIsAt, RatesHeard
      <3>3. CASE n = 22
        BY <1>2, <3>3 DEF MouseIsAt, RatesHeard
      <3> QED BY <1>3, <3>1, <3>2, <3>3
    <2> HIDE DEF rates, a, b
    <2>4. a.rateNext = FALSE /\ a.rates = rates /\ a.kind = m.kind
          /\ a.id = IF m.kind = "wheel" /\ n = 22 THEN 3 ELSE m.id
      BY <2>1, <2>3
    <2>5. a.id = IdHeard(a, n + 1)
      BY <1>3, <2>4 DEF MouseIsAt, IdHeard
    <2>6. MouseIsAt(a, n + 1)
      BY <1>1, <1>3, <2>2, <2>4, <2>5 DEF MouseIsAt
    <2>7. Answers(m, b) = <<Ack>>
      BY <1>1, <1>3 DEF Answers
    <2>8. Len(Answers(m, b)) = Waiting(n + 1)
      BY <1>3, <2>7 DEF Waiting, Acknowledged
    <2> QED BY <1>3, <2>4, <2>6, <2>8 DEF a, b
  <1>4. CASE n \notin {14, 18, 22}
    <2>1. ~m.rateNext /\ (b = 243 <=> n \in {12, 16, 20}) /\ (b = 242 <=> n \in {9, 24})
      BY <1>1, <1>4 DEF Told
    <2> HIDE DEF b
    <2>2. a.rateNext = (b = 243) /\ a.rates = m.rates /\ a.id = m.id /\ a.kind = m.kind
      BY <2>1 DEF After
    <2>3. RatesHeard(n + 1) = RatesHeard(n) /\ IdHeard(a, n + 1) = IdHeard(m, n)
      BY <1>4, <2>2 DEF Told, RatesHeard, IdHeard
    <2>7. a.rateNext <=> RateFollows(n + 1)
      BY <1>1, <2>1, <2>2
    <2>8. a.rates = RatesHeard(n + 1) /\ a.id = IdHeard(a, n + 1)
      BY <2>2, <2>3 DEF MouseIsAt
    <2> HIDE DEF a
    <2>4. MouseIsAt(a, n + 1)
      BY <2>7, <2>8 DEF MouseIsAt
    <2>5. Answers(m, b) = IF n \in {9, 24} THEN <<Ack, m.id>> ELSE <<Ack>>
      BY <2>1 DEF Answers
    <2>6. Len(Answers(m, b)) = Waiting(n + 1)
      BY <2>5, ScriptPlaces DEF Waiting, Told
    <2> QED BY <2>2, <2>4, <2>5, <2>6 DEF a, b
  <1> QED BY <1>3, <1>4

-----------------------------------------------------------------------------
(* The steps keep the dialogue.                                            *)

\* the dialogue, in the next state
LEMMA DialogueNext ==
  Dialogue' <=>
    /\ inbox' = <<>> \/ (step' - 1 \in DOMAIN Told /\ inbox' = <<Told[step' - 1]>>)
    /\ Len(out') = IF inbox' = <<>> THEN Waiting(step') ELSE 0
    /\ MouseIsAt(mouse', IF inbox' = <<>> THEN step' ELSE step' - 1)
    /\ step' \in {25, 26} /\ inbox' = <<>> => out'[Len(out')].val = mouse'.id
    /\ step' = LastStep => result' = mouse'.id
  BY DEF Dialogue, Heard, Waiting, MouseIsAt, RateFollows, RatesHeard, IdHeard

LEMMA InitMode == MouseInit => ModeInv
  <1> SUFFICES ASSUME MouseInit PROVE ModeInv
    OBVIOUS
  <1>1. TypeInv
    BY InitType
  <1>2. /\ step = 1 /\ inbox = <<>> /\ Len(out) = 0 /\ result = 0 /\ config \in {65, 97}
        /\ mouse.rateNext = FALSE /\ mouse.rates = <<0, 0, 0>> /\ mouse.id = 0
    BY DEF MouseInit
  <1>3. Dialogue
    BY <1>2, LastStepIs
       DEF Dialogue, Heard, Waiting, Acknowledged, MouseIsAt, RateFollows, RatesHeard, IdHeard
  <1>4. NoDialogue
    BY <1>2 DEF NoDialogue
  <1> QED BY <1>1, <1>2, <1>3, <1>4, LastStepIs DEF ModeInv, Absent, Present, After28

LEMMA ControlStepMode ==
  ASSUME ModeInv, ControlStep
  PROVE  ModeInv'
  <1>0. TypeInv /\ TypeInv'
    BY ControlStepType DEF ModeInv
  <1>1. /\ out \in Seq(Message) /\ irr \subseteq {"kbd", "aux"} /\ config \in 0 .. 255
        /\ step' = step + 1
        /\ UNCHANGED <<port60, result, mouse_mode, mouse, inbox, calm>>
    BY <1>0 DEF TypeInv, MouseTypeOK, Message, ControlStep, deviceVars
  <1>2. \/ step = 1 /\ Operand = 168
        \/ step = 2 /\ Operand = 32
        \/ step = 4 /\ Operand = 96
    BY <1>0, LastStepIs, StepsOfScript DEF ControlStep, TypeInv, MouseTypeOK
  <1>3. inbox = <<>>
    BY <1>0, <1>2 DEF TypeInv, OpeningIsPlain
  <1>4. Len(out) = 0 => Len(out') = IF step' = 3 THEN 1 ELSE 0
    <2>1. CASE step # 2
      BY <1>1, <1>2, <2>1 DEF ControlStep
    <2>2. CASE step = 2
      <3>1. Arrive("kbd", <<config>>) /\ <<config>> \in Seq(Byte) /\ Len(<<config>>) = 1
        BY <1>1, <1>2, <2>2 DEF ControlStep, Byte
      <3>2. Came(<<config>>)
        BY <1>1, <3>1, ArriveEffect
      <3> QED BY <1>1, <2>2, <3>1, <3>2 DEF Came
    <2> QED BY <2>1, <2>2
  <1>5. Present'
    <2> SUFFICES ASSUME calm, mouse.kind # "absent" PROVE Dialogue'
      BY <1>1 DEF Present
    <2>1. Dialogue
      BY <1>2, LastStepIs DEF ModeInv, Present
    <2>2. Len(out) = 0 /\ MouseIsAt(mouse, step)
      BY <1>2, <1>3, <2>1 DEF Dialogue, Waiting, Acknowledged, Heard
    <2>3. MouseIsAt(mouse, step + 1)
      BY <1>2, <2>2 DEF MouseIsAt, RateFollows, RatesHeard, IdHeard
    <2>4. Len(out') = Waiting(step')
      BY <1>1, <1>2, <1>4, <2>2 DEF Waiting, Acknowledged
    <2> QED BY <1>1, <1>2, <1>3, <2>3, <2>4, LastStepIs, DialogueNext
  <1>6. Absent'
    <2> SUFFICES ASSUME calm, mouse.kind = "absent" PROVE NoDialogue'
      BY <1>1 DEF Absent
    <2>1. NoDialogue
      BY <1>2, LastStepIs DEF ModeInv, Absent
    <2>2. Len(out) = 0
      BY <1>2, <2>1 DEF NoDialogue
    <2>3. step = 1 => config' = 65
      <3>1. step = 1 => config' = WithoutBit(config, 32) /\ config \in {65, 97}
        BY <1>2, <2>1 DEF ControlStep, NoDialogue
      <3>2. WithoutBit(65, 32) = 65 /\ WithoutBit(97, 32) = 65
        BY DEF WithoutBit, HasBit
      <3> QED BY <3>1, <3>2
    <2>4. step = 2 => out'[1].val = 65
      <3> SUFFICES ASSUME step = 2 PROVE out'[1].val = 65
        OBVIOUS
      <3>1. config = 65 /\ Arrive("kbd", <<config>>)
        BY <1>2, <2>1 DEF ControlStep, NoDialogue
      <3>2. <<65>> \in Seq(Byte) /\ Len(<<65>>) = 1 /\ <<65>>[1] = 65
        BY DEF Byte
      <3>3. Came(<<65>>)
        BY <1>1, <3>1, <3>2, ArriveEffect
      <3>4. 1 \in 1 .. Len(<<65>>)
        BY <3>2
      <3> QED BY <2>2, <3>2, <3>3, <3>4 DEF Came
    <2>5. step = 4 => port60' = 65
      BY <1>1, <2>1 DEF NoDialogue
    <2> QED BY <1>1, <1>2, <1>4, <2>1, <2>2, <2>3, <2>4, <2>5 DEF NoDialogue
  <1> QED BY <1>0, <1>1, <1>2, <1>5, <1>6, LastStepIs DEF ModeInv, After28

LEMMA MouseWriteMode ==
  ASSUME ModeInv, MouseWrite
  PROVE  ModeInv'
  <1>0. TypeInv /\ TypeInv'
    BY MouseWriteType DEF ModeInv
  <1>a. step \in 1 .. LastStep + 1 /\ AtStep("mouse")
    BY <1>0 DEF TypeInv, MouseTypeOK, MouseWrite
  <1>b. step \in DOMAIN Told /\ Operand = Told[step]
    BY <1>a, StepsOfScript
  <1>1. /\ step \in DOMAIN Told /\ Operand = Told[step] /\ step' = step + 1
        /\ inbox' = Append(inbox, Operand)
        /\ UNCHANGED <<out, port60, config, result, mouse_mode, mouse, calm>>
    BY <1>b DEF MouseWrite, ctlVars, cycleVars
  <1>2. step \in 5 .. 24 /\ step - 1 \notin DOMAIN Told /\ Waiting(step) = 0
    BY <1>1, ScriptPlaces
  <1>3. Present'
    <2> SUFFICES ASSUME calm, mouse.kind # "absent" PROVE Dialogue'
      BY <1>1 DEF Present
    <2>1. Dialogue
      BY <1>2, LastStepIs DEF ModeInv, Present
    <2>2. inbox = <<>> /\ Len(out) = 0 /\ MouseIsAt(mouse, step)
      BY <1>2, <2>1 DEF Dialogue, Heard
    <2>3. inbox' = <<Told[step]>> /\ inbox' # <<>> /\ step' - 1 = step /\ step' # LastStep
      <3>1. inbox' = Append(<<>>, Told[step]) /\ step' = step + 1
        BY <1>1, <2>2
      <3> QED BY <1>2, <3>1, LastStepIs
    <2> QED BY <1>1, <2>2, <2>3, DialogueNext
  <1>4. Absent'
    <2> SUFFICES ASSUME calm, mouse.kind = "absent" PROVE NoDialogue'
      BY <1>1 DEF Absent
    <2>1. NoDialogue
      BY <1>2, LastStepIs DEF ModeInv, Absent
    <2>2. UNCHANGED <<out, port60, config, result, mouse>>
      BY <1>1
    <2>3. step \in 5 .. 24 /\ step' \in 6 .. 25
      BY <1>1, <1>2
    <2>4. /\ mouse.id = 0 /\ result \in {0, 65} /\ Len(out) = 0 /\ port60 = 65
      BY <2>1, <2>3 DEF NoDialogue
    <2> QED BY <2>2, <2>3, <2>4 DEF NoDialogue
  <1> QED BY <1>0, <1>1, <1>2, <1>3, <1>4, LastStepIs DEF ModeInv, After28

LEMMA MouseReadMode ==
  ASSUME ModeInv, MouseRead
  PROVE  ModeInv'
  <1>0. TypeInv /\ TypeInv'
    BY MouseReadType DEF ModeInv
  <1>1. /\ out \in Seq(Message) /\ irr \subseteq {"kbd", "aux"} /\ port60 \in Byte
        /\ step' = step + 1 /\ TakeByte(irr)
        /\ result' = IF Operand = "result" THEN ByteRead ELSE result
        /\ calm' = (calm /\ ~AnswerDue)
        /\ UNCHANGED <<config, mouse_mode, mouse, inbox>>
    BY <1>0 DEF TypeInv, MouseTypeOK, Message, MouseRead, deviceVars
  <1>2. /\ step \in Acknowledged \cup {3, 11, 26}
        /\ Operand = "result" <=> step \in {11, 26}
    <2>1. step \in 1 .. LastStep + 1 /\ AtStep("read")
      BY <1>0 DEF TypeInv, MouseTypeOK, MouseRead
    <2>2. \/ step = 3 /\ Operand = "status"
          \/ step \in Acknowledged /\ Operand = "none"
          \/ step \in {11, 26} /\ Operand = "result"
      BY <2>1, StepsOfScript
    <2> QED BY <2>2 DEF Acknowledged
  <1>3. step \in 3 .. 26 /\ step # 4 /\ step # 5
    BY <1>2 DEF Acknowledged
  <1>4. Gone
    BY <1>1, TakeEffect
  <1>5. ByteRead = IF out = <<>> THEN port60 ELSE out[1].val
    BY <1>1, ByteReadIs
  <1>6. Present'
    <2> SUFFICES ASSUME calm, ~AnswerDue, mouse.kind # "absent" PROVE Dialogue'
      BY <1>1 DEF Present
    <2>1. Dialogue
      BY <1>3, LastStepIs DEF ModeInv, Present
    <2>2. inbox = <<>>
      BY <1>1, <2>1 DEF Dialogue, AnswerDue
    <2>3. Len(out) = Waiting(step) /\ out # <<>> /\ MouseIsAt(mouse, step)
      BY <1>1, <1>2, <2>1, <2>2, ScriptPlaces DEF Dialogue, Heard
    <2>4. Len(out') = Waiting(step + 1)
      BY <1>2, <1>4, <2>3, ScriptPlaces DEF Gone
    <2>5. MouseIsAt(mouse, step + 1)
      BY <1>2, <2>3, ScriptPlaces DEF MouseIsAt
    <2>6. step \in {25, 26} => out[Len(out)].val = mouse.id
      BY <2>1, <2>2 DEF Dialogue
    <2>7. step' \in {25, 26} => out'[Len(out')].val = mouse'.id
      <3> SUFFICES ASSUME step' \in {25, 26} PROVE out'[Len(out')].val = mouse.id
        BY <1>1
      <3>1. step = 25
        BY <1>1, <1>2, <1>3 DEF Acknowledged
      <3>2. Len(out) = 2 /\ Len(out') = 1
        <4>1. Waiting(25) = 2
          BY DEF Waiting
        <4> QED BY <1>4, <2>3, <3>1, <4>1 DEF Gone
      <3>3. out'[1] = out[2]
        BY <1>4, <2>3, <3>2 DEF Gone
      <3> QED BY <2>6, <3>1, <3>2, <3>3
    <2>8. step' = LastStep => result' = mouse'.id
      <3> SUFFICES ASSUME step = 26 PROVE result' = mouse.id
        BY <1>1, <1>3, LastStepIs
      <3>1. Len(out) = 1
        BY <2>3 DEF Waiting
      <3> QED BY <1>1, <1>2, <1>5, <2>3, <2>6, <3>1
    <2> QED BY <1>1, <2>2, <2>4, <2>5, <2>7, <2>8, DialogueNext
  <1>7. Absent'
    <2> SUFFICES ASSUME calm, mouse.kind = "absent" PROVE NoDialogue'
      BY <1>1 DEF Absent
    <2>1. NoDialogue
      BY <1>3, LastStepIs DEF ModeInv, Absent
    <2>2. CASE step = 3
      <3>1. Len(out) = 1 /\ out[1].val = 65
        BY <2>1, <2>2 DEF NoDialogue
      <3>2. Len(out') = 0 /\ port60' = 65 /\ result' = result
        BY <1>1, <1>2, <1>4, <1>5, <2>2, <3>1 DEF Gone
      <3> QED BY <1>1, <2>1, <2>2, <3>2 DEF NoDialogue
    <2>3. CASE step # 3
      <3>1. Len(out) = 0 /\ port60 = 65
        BY <1>3, <2>1, <2>3 DEF NoDialogue
      <3>2. out = <<>>
        BY <1>1, <3>1
      <3>3. Len(out') = 0 /\ port60' = 65 /\ result' \in {0, 65}
        BY <1>1, <1>4, <1>5, <2>1, <3>1, <3>2 DEF Gone, NoDialogue
      <3> QED BY <1>1, <1>3, <2>1, <2>3, <3>3 DEF NoDialogue
    <2> QED BY <2>2, <2>3
  <1> QED BY <1>0, <1>1, <1>3, <1>6, <1>7, LastStepIs DEF ModeInv, After28

LEMMA FinishInitMode ==
  ASSUME ModeInv, FinishInit
  PROVE  ModeInv'
  <1>0. TypeInv /\ TypeInv'
    BY FinishInitType DEF ModeInv
  <1>1. /\ step = 27 /\ step' = 28
        /\ mouse_mode' = IF HasWheel(result) THEN "SCROLLWHEEL" ELSE mouse_mode
        /\ UNCHANGED <<mouse, inbox, calm>>
    BY LastStepIs DEF FinishInit, deviceVars
  <1>2. mouse_mode = "DEFAULT"
    BY <1>0, <1>1, LastStepIs DEF TypeInv, HandlersWait
  <1>3. calm /\ mouse.kind = "absent" => result # 3 /\ mouse.id # 3
    BY <1>1, LastStepIs DEF ModeInv, Absent, NoDialogue
  <1>4. calm /\ mouse.kind # "absent" => result = mouse.id /\ inbox = <<>>
    <2>1. 26 \notin DOMAIN Told
      BY DEF Told
    <2> QED BY <1>1, <2>1, LastStepIs DEF ModeInv, Present, Dialogue
  <1>5. calm => Agreed'
    BY <1>1, <1>2, <1>3, <1>4 DEF Agreed, HasWheel
  <1> QED BY <1>0, <1>1, <1>5, LastStepIs DEF ModeInv, After28, Absent, Present

LEMMA MouseAnswersMode ==
  ASSUME ModeInv, MouseAnswers
  PROVE  ModeInv'
  <1>0. TypeInv /\ TypeInv'
    BY DevicesType DEF ModeInv, Devices
  <1>1. /\ out \in Seq(Message) /\ irr \subseteq {"kbd", "aux"} /\ step \in 1 .. 28
        /\ inbox \in Seq(Byte) /\ inbox # <<>> /\ inbox' = Tail(inbox)
        /\ UNCHANGED <<port60, step, result, config, mouse_mode, calm>>
    BY <1>0, LastStepIs DEF TypeInv, MouseTypeOK, Message, MouseAnswers, initVars
  <1>2. CASE mouse.kind = "absent"
    <2>1. UNCHANGED <<out, mouse>>
      BY <1>2 DEF MouseAnswers
    <2> QED BY <1>0, <1>1, <1>2, <2>1
            DEF ModeInv, Absent, Present, After28, NoDialogue, Agreed
  <1>3. CASE mouse.kind # "absent" /\ calm /\ step <= LastStep
    <2>1. Dialogue
      BY <1>3 DEF ModeInv, Present
    <2> DEFINE n == step - 1
               b == Told[n]
    <2>2. n \in DOMAIN Told /\ inbox = <<b>> /\ MouseIsAt(mouse, n) /\ Len(out) = 0 /\ n + 1 = step
      BY <1>1, <2>1 DEF Dialogue, Heard
    <2> HIDE DEF n
    <2>3. Head(inbox) = b /\ inbox' = <<>> /\ b \in Byte
      BY <1>1, <2>2
    <2>4. Arrive("aux", Answers(mouse, b)) /\ mouse' = After(mouse, b)
      BY <1>3, <2>3 DEF MouseAnswers
    <2>5. /\ MouseIsAt(mouse', step) /\ mouse'.kind = mouse.kind
          /\ Len(Answers(mouse, b)) = Waiting(step)
          /\ n = 24 => Answers(mouse, b)[2] = mouse'.id
      BY <1>0, <2>2, <2>4, MouseListens DEF TypeInv, MouseIs
    <2>6. Came(Answers(mouse, b)) /\ Answers(mouse, b) \in Seq(Byte)
      BY <1>0, <1>1, <2>3, <2>4, MouseTakes, ArriveEffect
    <2>7. Len(out') = Waiting(step)
      BY <2>2, <2>5, <2>6 DEF Came, Waiting
    <2>8. step \in {25, 26} => out'[Len(out')].val = mouse'.id
      <3> SUFFICES ASSUME step \in {25, 26} PROVE out'[Len(out')].val = mouse'.id
        OBVIOUS
      <3>1. n = 24 /\ step = 25
        <4>1. n \in 5 .. 24
          BY <2>2, ScriptPlaces
        <4> QED BY <2>2, <4>1
      <3>2. Waiting(step) = 2
        BY <3>1 DEF Waiting
      <3>3. 2 \in 1 .. Len(Answers(mouse, b)) /\ Len(out) + 2 = Len(out')
        BY <2>2, <2>5, <2>7, <3>2
      <3> QED BY <2>5, <2>6, <3>1, <3>3 DEF Came
    <2>9. step # LastStep
      BY <2>2, ScriptPlaces, LastStepIs
    <2>10. Dialogue'
      BY <1>1, <2>3, <2>5, <2>7, <2>8, <2>9, DialogueNext
    <2>11. TypeInv' /\ mouse'.kind # "absent" /\ step' <= LastStep
      BY <1>0, <1>1, <1>3, <2>5
    <2> QED BY <1>1, <2>10, <2>11, LastStepIs DEF ModeInv, Absent, Present, After28
  <1>4. CASE mouse.kind # "absent" /\ calm /\ step > LastStep
    BY <1>1, <1>4 DEF ModeInv, After28, Agreed
  <1>5. CASE ~calm
    BY <1>0, <1>1, <1>5 DEF ModeInv, Absent, Present, After28
  <1> QED BY <1>1, <1>2, <1>3, <1>4, <1>5, LastStepIs

\* what a disturbance or a handler does behind init_mouse's back
LEMMA OthersMode ==
  ASSUME ModeInv, Handlers \/ (\E m \in Moves : Move(m)) \/ (\E k \in Keys : KeyStroke(k))
  PROVE  ModeInv'
  <1>0. TypeInv /\ TypeInv'
    BY HandlersType, DevicesType DEF ModeInv, Devices
  <1>1. UNCHANGED <<step, mouse_mode, mouse, inbox>> /\ (calm' => calm /\ step > LastStep)
    <2>1. CASE Handlers
      <3>1. step > LastStep /\ UNCHANGED <<step, mouse_mode, mouse, inbox, calm>>
        BY <1>0, <2>1, LastStepIs
           DEF Handlers, KeyboardHandler, MouseHandler, ReadNext, PassPacket, Initialised, initVars,
               deviceVars, TypeInv, MouseTypeOK, HandlersWait
      <3> QED BY <3>1
    <2>2. CASE \E m \in Moves : Move(m)
      BY <2>2 DEF Move, Initialised, initVars
    <2>3. CASE \E k \in Keys : KeyStroke(k)
      BY <2>3 DEF KeyStroke, Initialised, initVars
    <2> QED BY <2>1, <2>2, <2>3
  <1>2. calm' => Agreed'
    BY <1>1 DEF ModeInv, After28, Agreed
  <1>3. calm' => ~(step' <= LastStep)
    BY <1>0, <1>1, LastStepIs DEF TypeInv, MouseTypeOK
  <1> QED BY <1>0, <1>2, <1>3 DEF ModeInv, Absent, Present, After28

LEMMA ModeStep == ModeInv /\ [MouseNext]_vars => ModeInv'
  <1> SUFFICES ASSUME ModeInv, [MouseNext]_vars PROVE ModeInv'
    OBVIOUS
  <1>1. CASE InitMouse
    BY <1>1, ControlStepMode, MouseWriteMode, MouseReadMode, FinishInitMode DEF InitMouse
  <1>2. CASE Handlers
    BY <1>2, OthersMode
  <1>3. CASE Devices
    BY <1>3, MouseAnswersMode, OthersMode DEF Devices
  <1>4. CASE UNCHANGED vars
    <2>1. TypeInv'
      BY <1>4, TypeStep DEF ModeInv
    <2>2. UNCHANGED <<step, out, inbox, config, port60, result, mouse, mouse_mode, calm>>
      BY <1>4 DEF vars, ctlVars, initVars, deviceVars
    <2> QED BY <2>1, <2>2
            DEF ModeInv, Absent, Present, After28, Agreed, NoDialogue, Dialogue, Heard, MouseIsAt,
                Waiting, RateFollows, RatesHeard, IdHeard
  <1> QED BY <1>1, <1>2, <1>3, <1>4 DEF MouseNext

(* Unless a key, a movement or a late answer fell into init_mouse, driver  *)
(* and mouse agree on the length of a packet, whatever mouse is there, or  *)
(* none (ps2mouse.c:131-153).                                              *)
THEOREM DriverKnowsItsMouse == MouseSpec => []ModeAgrees
  <1>1. ModeInv => ModeAgrees
    BY LastStepIs DEF ModeInv, After28, Agreed, ModeAgrees, Initialised
  <1> QED BY InitMode, ModeStep, <1>1, PTL DEF MouseSpec

-----------------------------------------------------------------------------
(* The packets of a sequence of movements, movement by movement.           *)

LEMMA Induction ==
  ASSUME NEW S, 0 \in S, \A n \in Nat : n \in S => n + 1 \in S
  PROVE  Nat \subseteq S
  <1> SUFFICES ASSUME Nat \ S # {} PROVE FALSE
    OBVIOUS
  <1>1. IsWellFoundedOn(OpToRel(<, Nat), Nat)
    BY NatLessThanWellFounded
  <1>2. PICK x \in Nat \ S : \A y \in Nat \ S : ~ (<<y, x>> \in OpToRel(<, Nat))
    BY <1>1, WFMin
  <1>3. \A y \in Nat \ S : ~ (y < x)
    BY <1>2 DEF OpToRel
  <1>4. x # 0 /\ x - 1 \in Nat /\ x - 1 < x /\ x = (x - 1) + 1
    OBVIOUS
  <1>5. x - 1 \in S
    BY <1>3, <1>4
  <1> QED BY <1>4, <1>5

\* f is what is finished after each number of movements, up to n
Finishes(f, moves, id, n) ==
  f = [k \in 0 .. n |-> IF k = 0 THEN <<>> ELSE Further(f[k - 1], moves[k], id)]

LEMMA FinishesExists ==
  ASSUME NEW moves, NEW id, NEW n \in Nat
  PROVE  \E f : Finishes(f, moves, id, n)
  <1> DEFINE S == {k \in Nat : \E f : Finishes(f, moves, id, k)}
  <1>1. 0 \in S
    <2> DEFINE f == [m \in 0 .. 0 |-> <<>>]
    <2>1. Finishes(f, moves, id, 0)
      BY DEF Finishes
    <2> QED BY <2>1
  <1>2. ASSUME NEW k \in Nat, k \in S PROVE k + 1 \in S
    <2>1. PICK f : Finishes(f, moves, id, k)
      BY <1>2
    <2> DEFINE g == [m \in 0 .. k + 1 |->
                       IF m = k + 1 THEN Further(f[k], moves[k + 1], id) ELSE f[m]]
    <2>2. ASSUME NEW m \in 0 .. k + 1
          PROVE  g[m] = IF m = 0 THEN <<>> ELSE Further(g[m - 1], moves[m], id)
      <3>1. CASE m = k + 1
        BY <3>1
      <3>2. CASE m # k + 1
        <4>1. m \in 0 .. k /\ g[m] = f[m] /\ (m # 0 => g[m - 1] = f[m - 1])
          BY <3>2
        <4>2. f[m] = IF m = 0 THEN <<>> ELSE Further(f[m - 1], moves[m], id)
          BY <2>1, <4>1 DEF Finishes
        <4> QED BY <4>1, <4>2
      <3> QED BY <3>1, <3>2
    <2>3. Finishes(g, moves, id, k + 1)
      BY <2>2 DEF Finishes
    <2> QED BY <2>3
  <1> HIDE DEF S
  <1>3. Nat \subseteq S
    BY <1>1, <1>2, Induction
  <1> QED BY <1>3 DEF S

\* movements that begin alike give packets that begin alike
LEMMA FinishesIsUnique ==
  ASSUME NEW moves, NEW more, NEW id, NEW n \in Nat, NEW k \in Nat, n <= k,
         \A m \in 1 .. n : moves[m] = more[m],
         NEW f, Finishes(f, moves, id, n), NEW g, Finishes(g, more, id, k)
  PROVE  f[n] = g[n]
  <1> DEFINE S == {m \in Nat : m <= n => f[m] = g[m]}
  <1>1. 0 \in S
    BY DEF Finishes
  <1>2. ASSUME NEW m \in Nat, m \in S PROVE m + 1 \in S
    <2> SUFFICES ASSUME m + 1 <= n PROVE f[m + 1] = g[m + 1]
      OBVIOUS
    <2>1. f[m] = g[m] /\ moves[m + 1] = more[m + 1]
      BY <1>2
    <2>a. m + 1 \in 0 .. n /\ m + 1 \in 0 .. k /\ m + 1 # 0 /\ (m + 1) - 1 = m
      OBVIOUS
    <2>2. f[m + 1] = Further(f[m], moves[m + 1], id)
      BY <2>a DEF Finishes
    <2>3. g[m + 1] = Further(g[m], more[m + 1], id)
      BY <2>a DEF Finishes
    <2> QED BY <2>1, <2>2, <2>3
  <1> HIDE DEF S
  <1>3. n \in S
    BY <1>1, <1>2, Induction
  <1> QED BY <1>3 DEF S

LEMMA PacketsFinish ==
  ASSUME NEW moves \in Seq(Moves), NEW id
  PROVE  \E f : /\ Finishes(f, moves, id, Len(moves))
                /\ PacketsOf(moves, id) = f[Len(moves)]
  <1> DEFINE f == CHOOSE g : g = [n \in 0 .. Len(moves) |->
                                    IF n = 0 THEN <<>> ELSE Further(g[n - 1], moves[n], id)]
  <1>1. PacketsOf(moves, id) = f[Len(moves)]
    BY DEF PacketsOf
  <1>2. \E g : g = [n \in 0 .. Len(moves) |->
                      IF n = 0 THEN <<>> ELSE Further(g[n - 1], moves[n], id)]
    <2>1. \E g : Finishes(g, moves, id, Len(moves))
      BY FinishesExists, LenProperties
    <2> QED BY <2>1 DEF Finishes
  <1>3. f = [n \in 0 .. Len(moves) |->
               IF n = 0 THEN <<>> ELSE Further(f[n - 1], moves[n], id)]
    BY <1>2
  <1> QED BY <1>1, <1>3 DEF Finishes

(* The two equations of PacketsOf.                                         *)
LEMMA PacketsEquations ==
  ASSUME NEW id
  PROVE  /\ PacketsOf(<<>>, id) = <<>>
         /\ \A moves \in Seq(Moves), m \in Moves :
              PacketsOf(Append(moves, m), id) = Further(PacketsOf(moves, id), m, id)
  <1>1. PacketsOf(<<>>, id) = <<>>
    <2>1. PICK f : Finishes(f, <<>>, id, 0) /\ PacketsOf(<<>>, id) = f[0]
      BY PacketsFinish, EmptySeq
    <2> QED BY <2>1 DEF Finishes
  <1>2. ASSUME NEW moves \in Seq(Moves), NEW m \in Moves
        PROVE  PacketsOf(Append(moves, m), id) = Further(PacketsOf(moves, id), m, id)
    <2> DEFINE n == Len(moves)
               more == Append(moves, m)
    <2>1. /\ more \in Seq(Moves) /\ Len(more) = n + 1 /\ n \in Nat
          /\ \A k \in 1 .. n : moves[k] = more[k]
          /\ more[n + 1] = m
      BY AppendProperties, LenProperties
    <2>2. PICK f : Finishes(f, moves, id, n) /\ PacketsOf(moves, id) = f[n]
      BY PacketsFinish
    <2>3. PICK g : Finishes(g, more, id, n + 1) /\ PacketsOf(more, id) = g[n + 1]
      BY <2>1, PacketsFinish
    <2> HIDE DEF n, more
    <2>4. f[n] = g[n]
      <3>1. n + 1 \in Nat /\ n <= n + 1
        BY <2>1
      <3> QED BY <2>1, <2>2, <2>3, <3>1, FinishesIsUnique
    <2>5. g[n + 1] = Further(g[n], more[n + 1], id)
      BY <2>1, <2>3 DEF Finishes
    <2> QED BY <2>1, <2>2, <2>3, <2>4, <2>5 DEF more
  <1> QED BY <1>1, <1>2

\* the first n movements
First(moves, n) == SubSeq(moves, 1, n)

LEMMA FirstOfMoves ==
  ASSUME NEW moves \in Seq(Moves)
  PROVE  /\ First(moves, Len(moves)) = moves
         /\ First(moves, 0) = <<>>
         /\ \A n \in 0 .. Len(moves) : First(moves, n) \in Seq(Moves)
         /\ \A n \in 0 .. Len(moves) - 1 : First(moves, n + 1) = Append(First(moves, n), moves[n + 1])
         /\ \A n \in 0 .. Len(moves), m \in Moves : First(Append(moves, m), n) = First(moves, n)
  <1>1. First(moves, Len(moves)) = moves /\ First(moves, 0) = <<>>
    BY DEF First
  <1>2. ASSUME NEW n \in 0 .. Len(moves) PROVE First(moves, n) \in Seq(Moves)
    BY DEF First
  <1>3. ASSUME NEW n \in 0 .. Len(moves) - 1
        PROVE  First(moves, n + 1) = Append(First(moves, n), moves[n + 1])
    BY DEF First
  <1>4. ASSUME NEW n \in 0 .. Len(moves), NEW m \in Moves
        PROVE  First(Append(moves, m), n) = First(moves, n)
    BY DEF First
  <1> QED BY <1>1, <1>2, <1>3, <1>4

Meanings(id) == {Meaning(m, id) : m \in Moves}

LEMMA PacketsAreMeanings ==
  ASSUME NEW moves \in Seq(Moves), NEW id
  PROVE  \A n \in 0 .. Len(moves) : PacketsOf(First(moves, n), id) \in Seq(Meanings(id))
  <1> DEFINE P(k) == PacketsOf(First(moves, k), id)
             S == {k \in Nat : k <= Len(moves) => P(k) \in Seq(Meanings(id))}
  <1>1. 0 \in S
    <2>1. P(0) = <<>>
      BY FirstOfMoves, PacketsEquations
    <2>2. <<>> \in Seq(Meanings(id))
      OBVIOUS
    <2> HIDE DEF P
    <2>3. P(0) \in Seq(Meanings(id))
      BY <2>1, <2>2
    <2> QED BY <2>3
  <1>2. ASSUME NEW k \in Nat, k \in S PROVE k + 1 \in S
    <2> SUFFICES ASSUME k + 1 <= Len(moves) PROVE P(k + 1) \in Seq(Meanings(id))
      OBVIOUS
    <2>1. /\ k \in 0 .. Len(moves) /\ k \in 0 .. Len(moves) - 1
          /\ P(k) \in Seq(Meanings(id)) /\ moves[k + 1] \in Moves
      BY <1>2
    <2>2. P(k + 1) = Further(P(k), moves[k + 1], id)
      BY <2>1, FirstOfMoves, PacketsEquations
    <2>3. Meaning(moves[k + 1], id) \in Meanings(id)
      BY <2>1 DEF Meanings
    <2> DEFINE p == P(k)
               q == P(k + 1)
    <2>4. p \in Seq(Meanings(id)) /\ (q = p \/ q = Append(p, Meaning(moves[k + 1], id)))
      BY <2>1, <2>2 DEF Further
    <2> HIDE DEF P, p, q
    <2>5. q \in Seq(Meanings(id))
      BY <2>3, <2>4
    <2> QED BY <2>5 DEF q
  <1> HIDE DEF S
  <1>3. Nat \subseteq S
    BY <1>1, <1>2, Induction
  <1> QED BY <1>3, LenProperties DEF S

LEMMA PrefixOfPrefix ==
  ASSUME NEW S, NEW r \in Seq(S), NEW p \in Seq(S), NEW q \in Seq(S),
         IsPrefix(r, p), IsPrefix(p, q)
  PROVE  IsPrefix(r, q)
  BY DEF IsPrefix

(* What the first movements amount to begins what all of them amount to.   *)
LEMMA PacketsBegin ==
  ASSUME NEW moves \in Seq(Moves), NEW id, NEW n \in 0 .. Len(moves)
  PROVE  IsPrefix(PacketsOf(First(moves, n), id), PacketsOf(moves, id))
  <1> DEFINE P(k) == PacketsOf(First(moves, k), id)
             S == {k \in Nat : n <= k /\ k <= Len(moves) => IsPrefix(P(n), P(k))}
  <1>0. n \in Nat /\ Len(moves) \in Nat
    BY LenProperties
  <1>1. \A k \in 0 .. Len(moves) : P(k) \in Seq(Meanings(id))
    BY PacketsAreMeanings
  <1>2. IsPrefix(P(n), P(n))
    <2> HIDE DEF P
    <2> QED BY <1>1 DEF IsPrefix
  <1>3. 0 \in S
    <2> HIDE DEF P
    <2> QED BY <1>0, <1>2
  <1>4. ASSUME NEW k \in Nat, k \in S PROVE k + 1 \in S
    <2> SUFFICES ASSUME n <= k + 1, k + 1 <= Len(moves) PROVE IsPrefix(P(n), P(k + 1))
      OBVIOUS
    <2>1. CASE n = k + 1
      <3> HIDE DEF P
      <3> QED BY <1>2, <2>1
    <2>2. CASE n <= k
      <3>1. k \in 0 .. Len(moves) /\ k \in 0 .. Len(moves) - 1 /\ k + 1 \in 0 .. Len(moves)
        BY <1>0
      <3>2. P(k + 1) = Further(P(k), moves[k + 1], id)
        <4>1. First(moves, k) \in Seq(Moves) /\ moves[k + 1] \in Moves
          BY <3>1, FirstOfMoves
        <4>2. First(moves, k + 1) = Append(First(moves, k), moves[k + 1])
          BY <3>1, FirstOfMoves
        <4> QED BY <4>1, <4>2, PacketsEquations
      <3> DEFINE p == P(k)
                 q == P(k + 1)
                 r == P(n)
      <3>3. IsPrefix(r, p)
        <4> HIDE DEF P
        <4> QED BY <1>4, <2>2, <3>1
      <3>4. p \in Seq(Meanings(id)) /\ q \in Seq(Meanings(id)) /\ r \in Seq(Meanings(id))
        BY <1>1, <3>1
      <3> HIDE DEF P, p, q, r
      <3>5. q = p \/ q = Append(p, Meaning(moves[k + 1], id))
        BY <3>2 DEF Further, p, q
      <3>6. IsPrefix(p, q)
        <4>1. CASE q = p
          BY <3>4, <4>1 DEF IsPrefix
        <4>2. CASE q = Append(p, Meaning(moves[k + 1], id))
          <5>1. Meaning(moves[k + 1], id) \in Meanings(id)
            BY <3>1 DEF Meanings
          <5> HIDE <3>2
          <5> QED BY <3>4, <4>2, <5>1 DEF IsPrefix
        <4> QED BY <3>5, <4>1, <4>2
      <3>7. IsPrefix(r, q)
        BY <3>3, <3>4, <3>6, PrefixOfPrefix
      <3> QED BY <3>7 DEF r, q
    <2> QED BY <2>1, <2>2
  <1> HIDE DEF S
  <1>5. Len(moves) \in S
    BY <1>0, <1>3, <1>4, Induction
  <1>6. IsPrefix(P(n), P(Len(moves)))
    BY <1>0, <1>5 DEF S
  <1>7. First(moves, Len(moves)) = moves
    BY FirstOfMoves
  <1> QED BY <1>6, <1>7

-----------------------------------------------------------------------------
(* The bytes of a movement, and the packet the driver makes of them.       *)

\* the number of the last byte of the packets of a mouse
Final(id) == IF id = 3 THEN 3 ELSE 2

Bit(m, b) == IF b \in m.buttons THEN ButtonBit[b] ELSE 0

FirstByte(m) ==
  8 + Bit(m, "LEFT") + Bit(m, "RIGHT") + Bit(m, "MIDDLE") + (IF m.overflow THEN 64 ELSE 0)

LEMMA EncodedIs ==
  ASSUME NEW m \in Moves, NEW id \in {0, 3}
  PROVE  /\ Len(Encoded(m, id)) = Final(id) + 1
         /\ Encoded(m, id)[1] = FirstByte(m)
         /\ Encoded(m, id)[2] = m.x
         /\ Encoded(m, id)[3] = m.y
         /\ id = 3 => Encoded(m, id)[4] = m.wheel
  <1>1. Encoded(m, id) = <<FirstByte(m), m.x, m.y>> \o (IF id = 3 THEN <<m.wheel>> ELSE <<>>)
    BY DEF Encoded, FirstByte, Bit
  <1>2. CASE id = 3
    BY <1>1, <1>2 DEF Final
  <1>3. CASE id = 0
    BY <1>1, <1>3 DEF Final
  <1> QED BY <1>2, <1>3

LEMMA BitsApart ==
  \A l \in {0, 1}, r \in {0, 2}, c \in {0, 4}, o \in {0, 64} :
    LET v == 8 + l + r + c + o
    IN /\ HasBit(v, 1) <=> l = 1
       /\ HasBit(v, 2) <=> r = 2
       /\ HasBit(v, 4) <=> c = 4
       /\ HasBit(v, 8)
       /\ HasBit(v, 64) <=> o = 64
       /\ ~HasBit(v, 128)
  BY DEF HasBit

LEMMA FirstByteTells ==
  ASSUME NEW m \in Moves
  PROVE  /\ HasBit(FirstByte(m), 8) /\ ~HasBit(FirstByte(m), 128)
         /\ HasBit(FirstByte(m), 64) <=> m.overflow
         /\ {b \in DOMAIN ButtonBit : HasBit(FirstByte(m), ButtonBit[b])} = m.buttons
  <1> DEFINE l == Bit(m, "LEFT")
             r == Bit(m, "RIGHT")
             c == Bit(m, "MIDDLE")
             o == IF m.overflow THEN 64 ELSE 0
             v == FirstByte(m)
  <1>1. m.overflow \in BOOLEAN /\ m.buttons \subseteq {"LEFT", "RIGHT", "MIDDLE"}
    BY MouseAssumption DEF MouseAssumption
  <1>2. /\ l \in {0, 1} /\ (l = 1 <=> "LEFT" \in m.buttons)
        /\ r \in {0, 2} /\ (r = 2 <=> "RIGHT" \in m.buttons)
        /\ c \in {0, 4} /\ (c = 4 <=> "MIDDLE" \in m.buttons)
        /\ o \in {0, 64} /\ (o = 64 <=> m.overflow)
    BY DEF Bit, ButtonBit
  <1>3. v = 8 + l + r + c + o
    BY DEF FirstByte
  <1> HIDE DEF l, r, c, o, v
  <1>4. /\ HasBit(v, 1) <=> l = 1
        /\ HasBit(v, 2) <=> r = 2
        /\ HasBit(v, 4) <=> c = 4
        /\ HasBit(v, 8)
        /\ HasBit(v, 64) <=> o = 64
        /\ ~HasBit(v, 128)
    BY <1>2, <1>3, BitsApart
  <1>5. /\ DOMAIN ButtonBit = {"LEFT", "RIGHT", "MIDDLE"}
        /\ ButtonBit["LEFT"] = 1 /\ ButtonBit["RIGHT"] = 2 /\ ButtonBit["MIDDLE"] = 4
    BY DEF ButtonBit
  <1>6. \A b \in DOMAIN ButtonBit : HasBit(v, ButtonBit[b]) <=> b \in m.buttons
    BY <1>2, <1>4, <1>5
  <1>7. {b \in DOMAIN ButtonBit : HasBit(v, ButtonBit[b])} = m.buttons
    BY <1>1, <1>5, <1>6
  <1> QED BY <1>2, <1>4, <1>7 DEF v

\* the first n bytes of a movement are where they belong
Stored(bytes, n, m, id) == \A k \in 0 .. 3 : k < n => bytes[k] = Encoded(m, id)[k + 1]

LEMMA WholePacket ==
  ASSUME NEW m \in Moves, NEW id \in {0, 3}, mouse_mode = "SCROLLWHEEL" <=> id = 3,
         NEW bytes, Stored(bytes, Final(id) + 1, m, id)
  PROVE  Packet(bytes) = Meaning(m, id)
  <1>1. bytes[0] = FirstByte(m) /\ bytes[1] = m.x /\ bytes[2] = m.y
    BY EncodedIs DEF Stored, Final
  <1>2. id = 3 => bytes[3] = m.wheel
    BY EncodedIs DEF Stored, Final
  <1>3. {b \in DOMAIN ButtonBit : HasBit(bytes[0], ButtonBit[b])} = m.buttons
    BY <1>1, FirstByteTells
  <1>4. m.wheel \in {-1, 0, 1}
    BY MouseAssumption DEF MouseAssumption
  <1> DEFINE scroll == IF mouse_mode = "SCROLLWHEEL"
                       THEN CASE bytes[3] > 0 -> {"SCROLL_DOWN"} [] bytes[3] < 0 -> {"SCROLL_UP"}
                              [] OTHER -> {}
                       ELSE {}
             meant == (IF id = 3 /\ m.wheel = 1 THEN {"SCROLL_DOWN"} ELSE {})
                      \cup (IF id = 3 /\ m.wheel = -1 THEN {"SCROLL_UP"} ELSE {})
  <1>5. scroll = meant
    <2>1. CASE id = 3 /\ m.wheel = 1
      BY <1>2, <2>1
    <2>2. CASE id = 3 /\ m.wheel = -1
      BY <1>2, <2>2
    <2>3. CASE id = 3 /\ m.wheel = 0
      BY <1>2, <2>3
    <2>4. CASE id # 3
      BY <2>4
    <2> QED BY <1>4, <2>1, <2>2, <2>3, <2>4
  <1>6. Packet(bytes) = [x |-> m.x, y |-> m.y, buttons |-> m.buttons \cup scroll]
    BY <1>1, <1>3 DEF Packet
  <1>7. Meaning(m, id) = [x |-> m.x, y |-> m.y, buttons |-> m.buttons \cup meant]
    <2>1. m.buttons \cup meant = m.buttons \cup (IF id = 3 /\ m.wheel = 1 THEN {"SCROLL_DOWN"} ELSE {})
                                   \cup (IF id = 3 /\ m.wheel = -1 THEN {"SCROLL_UP"} ELSE {})
      OBVIOUS
    <2> QED BY <2>1 DEF Meaning
  <1> QED BY <1>5, <1>6, <1>7

-----------------------------------------------------------------------------
(* The places, in what was sent, of the bytes that wait in the controller. *)

Places == [move : Nat, byte : 0 .. 3]

NextPlace(p, id) ==
  IF p.byte = Final(id) THEN [move |-> p.move + 1, byte |-> 0]
                        ELSE [move |-> p.move, byte |-> p.byte + 1]

\* a byte that waits, between the places p and q: one of a key, or the one at p
Carries(o, p, q, moves, id) ==
  \/ o.src = "kbd" /\ q = p
  \/ /\ o.src = "aux" /\ p.move < Len(moves) /\ p.byte <= Final(id)
     /\ o.val = Encoded(moves[p.move + 1], id)[p.byte + 1]
     /\ q = NextPlace(p, id)

Follow(place, bytes, moves, id) ==
  /\ place \in [0 .. Len(bytes) -> Places]
  /\ \A i \in 1 .. Len(bytes) : Carries(bytes[i], place[i - 1], place[i], moves, id)
  /\ place[Len(bytes)] = [move |-> Len(moves), byte |-> 0]

\* what the driver has made of the bytes before p
Handled(p, moves, id, cycle, bytes, finished) ==
  /\ p.byte = cycle /\ p.move <= Len(moves) /\ cycle <= Final(id)
  /\ cycle > 0 => p.move < Len(moves) /\ Stored(bytes, cycle, moves[p.move + 1], id)
  /\ finished = PacketsOf(First(moves, p.move), id)

LEMMA NextIsAPlace ==
  ASSUME NEW p \in Places, NEW id, p.byte <= Final(id)
  PROVE  NextPlace(p, id) \in Places
  BY DEF Places, NextPlace, Final

\* the first byte is taken
LEMMA FollowRest ==
  ASSUME NEW bytes \in Seq(Message), NEW rest \in Seq(Message), Len(bytes) = Len(rest) + 1,
         \A i \in 1 .. Len(rest) : rest[i] = bytes[i + 1],
         NEW moves, NEW id, NEW place, Follow(place, bytes, moves, id)
  PROVE  /\ place[0] \in Places
         /\ Carries(bytes[1], place[0], place[1], moves, id)
         /\ Follow([i \in 0 .. Len(rest) |-> place[i + 1]], rest, moves, id)
  <1> DEFINE n == Len(rest)
             there == [i \in 0 .. n |-> place[i + 1]]
  <1>1. n \in Nat /\ Len(bytes) = n + 1
    BY LenProperties
  <1>2. place[0] \in Places /\ Carries(bytes[1], place[0], place[1], moves, id)
    <2>1. 0 \in 0 .. Len(bytes) /\ 1 \in 1 .. Len(bytes) /\ 1 - 1 = 0
      BY <1>1
    <2>2. place \in [0 .. Len(bytes) -> Places]
          /\ \A i \in 1 .. Len(bytes) : Carries(bytes[i], place[i - 1], place[i], moves, id)
      BY DEF Follow
    <2>3. Carries(bytes[1], place[1 - 1], place[1], moves, id)
      BY <2>1, <2>2
    <2> QED BY <2>1, <2>2, <2>3
  <1>3. there \in [0 .. n -> Places]
    BY <1>1 DEF Follow
  <1>4. ASSUME NEW i \in 1 .. n
        PROVE  Carries(rest[i], there[i - 1], there[i], moves, id)
    <2>1. i + 1 \in 1 .. Len(bytes) /\ i - 1 \in 0 .. n /\ i \in 0 .. n /\ (i - 1) + 1 = (i + 1) - 1
      BY <1>1
    <2>2. Carries(bytes[i + 1], place[(i + 1) - 1], place[i + 1], moves, id)
      BY <2>1 DEF Follow
    <2>3. there[i - 1] = place[(i + 1) - 1] /\ there[i] = place[i + 1] /\ rest[i] = bytes[i + 1]
      BY <2>1
    <2> QED BY <2>2, <2>3
  <1>5. there[n] = [move |-> Len(moves), byte |-> 0]
    BY <1>1 DEF Follow
  <1> QED BY <1>2, <1>3, <1>4, <1>5 DEF Follow

\* bytes that come: all that were there, and more
More(bytes, longer, src, values) ==
  /\ longer \in Seq(Message) /\ Len(longer) = Len(bytes) + Len(values)
  /\ \A i \in 1 .. Len(bytes) : longer[i] = bytes[i]
  /\ \A i \in 1 .. Len(values) : /\ longer[Len(bytes) + i].src = src
                                 /\ longer[Len(bytes) + i].val = values[i]

\* a key
LEMMA FollowKey ==
  ASSUME NEW bytes \in Seq(Message), NEW k, NEW longer, More(bytes, longer, "kbd", <<k>>),
         NEW moves \in Seq(Moves), NEW id, NEW place, Follow(place, bytes, moves, id)
  PROVE  \E there : Follow(there, longer, moves, id) /\ there[0] = place[0]
  <1> DEFINE n == Len(bytes)
             there == [i \in 0 .. n + 1 |-> IF i = n + 1 THEN place[n] ELSE place[i]]
  <1>1. n \in Nat /\ Len(longer) = n + 1 /\ longer[n + 1].src = "kbd"
    <2>1. Len(<<k>>) = 1
      OBVIOUS
    <2> QED BY <2>1, LenProperties DEF More
  <1>2. place \in [0 .. n -> Places] /\ place[n] = [move |-> Len(moves), byte |-> 0]
    BY DEF Follow
  <1>3. there \in [0 .. n + 1 -> Places]
    BY <1>1, <1>2
  <1>4. ASSUME NEW i \in 1 .. n + 1
        PROVE  Carries(longer[i], there[i - 1], there[i], moves, id)
    <2>1. CASE i = n + 1
      <3>1. there[i - 1] = place[n] /\ there[i] = place[n]
        BY <1>1, <2>1
      <3> QED BY <1>1, <2>1, <3>1 DEF Carries
    <2>2. CASE i # n + 1
      <3>1. i \in 1 .. n /\ there[i - 1] = place[i - 1] /\ there[i] = place[i]
        BY <1>1, <2>2
      <3>2. longer[i] = bytes[i] /\ Carries(bytes[i], place[i - 1], place[i], moves, id)
        BY <3>1 DEF More, Follow
      <3> QED BY <3>1, <3>2
    <2> QED BY <2>1, <2>2
  <1>5. there[n + 1] = [move |-> Len(moves), byte |-> 0] /\ there[0] = place[0]
    BY <1>1, <1>2
  <1> HIDE DEF there
  <1>6. Follow(there, longer, moves, id)
    BY <1>1, <1>3, <1>4, <1>5 DEF Follow
  <1> QED BY <1>5, <1>6

\* a movement more changes nothing of what waits
LEMMA CarriesStill ==
  ASSUME NEW moves \in Seq(Moves), NEW m \in Moves, NEW id, NEW o, NEW p \in Places, NEW q,
         Carries(o, p, q, moves, id)
  PROVE  Carries(o, p, q, Append(moves, m), id)
  <1>1. p.move \in Nat /\ Len(moves) \in Nat
    BY LenProperties DEF Places
  <1>2. /\ Len(Append(moves, m)) = Len(moves) + 1
        /\ p.move < Len(moves) => Append(moves, m)[p.move + 1] = moves[p.move + 1]
    <2>1. p.move < Len(moves) => p.move + 1 \in 1 .. Len(moves)
      BY <1>1
    <2> QED BY <2>1, AppendProperties
  <1> HIDE <1>1
  <1>3. p.move < Len(moves) => p.move < Len(Append(moves, m))
    BY <1>1, <1>2
  <1> QED BY <1>2, <1>3 DEF Carries

\* a movement
LEMMA FollowMove ==
  ASSUME NEW bytes \in Seq(Message), NEW id \in {0, 3}, NEW m \in Moves, NEW longer,
         More(bytes, longer, "aux", Encoded(m, id)),
         NEW moves \in Seq(Moves), NEW place, Follow(place, bytes, moves, id)
  PROVE  \E there : Follow(there, longer, Append(moves, m), id) /\ there[0] = place[0]
  <1> DEFINE n == Len(bytes)
             l == Len(moves)
             f == Final(id)
             there == [i \in 0 .. n + f + 1 |->
                         IF i <= n THEN place[i]
                         ELSE IF i = n + f + 1 THEN [move |-> l + 1, byte |-> 0]
                         ELSE [move |-> l, byte |-> i - n]]
             more == Append(moves, m)
  <1>1. /\ n \in Nat /\ l \in Nat /\ f \in {2, 3}
        /\ Len(longer) = n + f + 1
        /\ \A i \in 1 .. n : longer[i] = bytes[i]
    <2>1. Len(Encoded(m, id)) = f + 1
      BY EncodedIs
    <2>2. n \in Nat /\ l \in Nat /\ f \in {2, 3}
      BY LenProperties DEF Final
    <2>3. Len(longer) = n + Len(Encoded(m, id)) /\ \A i \in 1 .. n : longer[i] = bytes[i]
      BY DEF More
    <2> HIDE DEF f
    <2> QED BY <2>1, <2>2, <2>3
  <1>2. \A i \in 1 .. f + 1 : longer[n + i].src = "aux" /\ longer[n + i].val = Encoded(m, id)[i]
    <2>1. Len(Encoded(m, id)) = f + 1
      BY EncodedIs
    <2> QED BY <2>1 DEF More
  <1>3. Len(more) = l + 1 /\ more[l + 1] = m
    BY <1>1, AppendProperties
  <1>4. place \in [0 .. n -> Places] /\ place[n] = [move |-> l, byte |-> 0]
    BY DEF Follow
  <1> HIDE DEF f, more
  <1>5. there \in [0 .. n + f + 1 -> Places]
    <2> SUFFICES ASSUME NEW i \in 0 .. n + f + 1 PROVE there[i] \in Places
      OBVIOUS
    <2>1. CASE i <= n
      BY <1>1, <1>4, <2>1
    <2>2. CASE i = n + f + 1
      BY <1>1, <2>2 DEF Places
    <2>3. CASE i > n /\ i # n + f + 1
      BY <1>1, <2>3 DEF Places
    <2> QED BY <1>1, <2>1, <2>2, <2>3
  <1>6. ASSUME NEW i \in 1 .. n + f + 1
        PROVE  Carries(longer[i], there[i - 1], there[i], more, id)
    <2>1. CASE i <= n
      <3>1. i \in 1 .. n /\ there[i - 1] = place[i - 1] /\ there[i] = place[i] /\ i - 1 \in 0 .. n
        BY <1>1, <2>1
      <3>2. longer[i] = bytes[i] /\ Carries(bytes[i], place[i - 1], place[i], moves, id)
        BY <1>1, <3>1 DEF Follow
      <3>3. place[i - 1] \in Places
        BY <1>4, <3>1
      <3>4. Carries(longer[i], place[i - 1], place[i], more, id)
        BY <3>2, <3>3, CarriesStill DEF more
      <3> QED BY <3>1, <3>4
    <2>2. CASE i > n
      <3> DEFINE j == i - n
                 p == [move |-> l, byte |-> j - 1]
      <3>1. j \in 1 .. f + 1 /\ i = n + j
        BY <1>1, <2>2
      <3>2. there[i - 1] = p
        <4>1. CASE i - 1 = n
          <5>1. there[i - 1] = place[n] /\ j - 1 = 0
            BY <1>1, <4>1
          <5> QED BY <1>4, <5>1
        <4>2. CASE i - 1 # n
          BY <1>1, <2>2, <4>2
        <4> QED BY <4>1, <4>2
      <3>3. there[i] = NextPlace(p, id)
        <4>1. CASE j = f + 1
          <5>1. i = n + f + 1 /\ ~(i <= n) /\ p.byte = f /\ p.move = l
            BY <1>1, <3>1, <4>1
          <5>2. there[i] = [move |-> l + 1, byte |-> 0]
            BY <5>1
          <5> QED BY <5>1, <5>2 DEF NextPlace, f
        <4>2. CASE j # f + 1
          <5>1. i # n + f + 1 /\ ~(i <= n) /\ p.byte # f /\ p.move = l /\ p.byte + 1 = i - n
            BY <1>1, <3>1, <4>2
          <5>2. there[i] = [move |-> l, byte |-> i - n]
            BY <5>1
          <5> QED BY <5>1, <5>2 DEF NextPlace, f
        <4> QED BY <4>1, <4>2
      <3>4. longer[i].src = "aux" /\ longer[i].val = Encoded(m, id)[j]
        BY <1>2, <3>1
      <3>5. p.move < Len(more) /\ p.byte <= f /\ more[p.move + 1] = m /\ p.byte + 1 = j
        BY <1>1, <1>3, <3>1
      <3> HIDE DEF p, j, there
      <3> QED BY <3>2, <3>3, <3>4, <3>5 DEF Carries, f
    <2> QED BY <1>1, <2>1, <2>2
  <1>7. there[n + f + 1] = [move |-> Len(more), byte |-> 0] /\ there[0] = place[0]
    BY <1>1, <1>3
  <1> HIDE DEF there
  <1>8. Follow(there, longer, more, id)
    BY <1>1, <1>5, <1>6, <1>7 DEF Follow
  <1> QED BY <1>7, <1>8 DEF more

\* and nothing of what was made of the bytes before
LEMMA HandledStill ==
  ASSUME NEW moves \in Seq(Moves), NEW m \in Moves, NEW id, NEW p \in Places, NEW cycle,
         NEW bytes, NEW finished, Handled(p, moves, id, cycle, bytes, finished)
  PROVE  Handled(p, Append(moves, m), id, cycle, bytes, finished)
  <1>1. p.move \in 0 .. Len(moves) /\ Len(moves) \in Nat
    BY LenProperties DEF Places, Handled
  <1>2. Len(Append(moves, m)) = Len(moves) + 1
    BY AppendProperties
  <1>3. p.move < Len(moves) => Append(moves, m)[p.move + 1] = moves[p.move + 1]
    <2>1. p.move < Len(moves) => p.move + 1 \in 1 .. Len(moves)
      BY <1>1
    <2> QED BY <2>1, AppendProperties
  <1>4. First(Append(moves, m), p.move) = First(moves, p.move)
    BY <1>1, FirstOfMoves
  <1>5. p.move <= Len(Append(moves, m)) /\ (p.move < Len(moves) => p.move < Len(Append(moves, m)))
    BY <1>1, <1>2
  <1> QED BY <1>3, <1>4, <1>5 DEF Handled

-----------------------------------------------------------------------------
(* The invariant: what waits is what was sent and not yet handled.         *)

Stream ==
  \E place :
    /\ Follow(place, out, sent, mouse.id)
    /\ Handled(place[0], sent, mouse.id, mouse_cycle, mouse_byte, decoded)

Silent == calm /\ step <= LastStep => sent = <<>> /\ decoded = <<>>
Whole  == calm /\ ~stolen /\ step > LastStep => Stream

PacketInv == ModeInv /\ sent \in Seq(Moves) /\ Silent /\ Whole

LEMMA PacketTypes ==
  ASSUME PacketInv
  PROVE  /\ TypeInv
         /\ out \in Seq(Message) /\ irr \subseteq {"kbd", "aux"} /\ port60 \in Byte
         /\ step \in 1 .. 28 /\ mouse.id \in {0, 3} /\ mouse_byte \in [0 .. 3 -> Byte]
         /\ sent \in Seq(Moves)
  BY LastStepIs DEF PacketInv, ModeInv, TypeInv, MouseTypeOK, Message

LEMMA InitPacket == MouseInit => PacketInv
  <1> SUFFICES ASSUME MouseInit PROVE PacketInv
    OBVIOUS
  <1>1. step = 1 /\ sent = <<>> /\ decoded = <<>>
    BY DEF MouseInit
  <1> QED BY <1>1, InitMode, LastStepIs DEF PacketInv, Silent, Whole

LEMMA DialoguePacket ==
  ASSUME PacketInv, ControlStep \/ MouseWrite \/ MouseRead
  PROVE  PacketInv'
  <1>1. ModeInv'
    BY ControlStepMode, MouseWriteMode, MouseReadMode DEF PacketInv
  <1>2. step < LastStep /\ step' = step + 1 /\ sent' = sent /\ decoded' = decoded /\ (calm' => calm)
    <2>1. CASE ControlStep
      BY <2>1 DEF ControlStep, AtStep, cycleVars, deviceVars
    <2>2. CASE MouseWrite
      BY <2>2 DEF MouseWrite, AtStep, cycleVars
    <2>3. CASE MouseRead
      BY <2>3 DEF MouseRead, AtStep, cycleVars, deviceVars
    <2> QED BY <2>1, <2>2, <2>3
  <1>3. step \in 1 .. 28
    BY PacketTypes
  <1>4. step <= LastStep /\ ~(step' > LastStep)
    BY <1>2, <1>3, LastStepIs
  <1>5. sent' \in Seq(Moves)
    BY <1>2 DEF PacketInv
  <1> QED BY <1>1, <1>2, <1>4, <1>5 DEF PacketInv, Silent, Whole

LEMMA FinishInitPacket ==
  ASSUME PacketInv, FinishInit
  PROVE  PacketInv'
  <1>1. ModeInv'
    BY FinishInitMode DEF PacketInv
  <1>2. /\ step = 27 /\ step' = 28
        /\ UNCHANGED <<mouse_cycle, mouse_byte, decoded, mouse, inbox, sent, calm, stolen>>
        /\ TakeByte(irr)
    BY LastStepIs DEF FinishInit, cycleVars, deviceVars
  <1>3. sent' \in Seq(Moves)
    BY <1>2 DEF PacketInv
  <1>4. Silent'
    BY <1>2, LastStepIs DEF Silent
  <1>5. ASSUME calm PROVE Stream'
    <2>1. sent = <<>> /\ decoded = <<>>
      BY <1>2, <1>5, LastStepIs DEF PacketInv, Silent
    <2>2. Len(out) = 0
      <3>1. CASE mouse.kind = "absent"
        BY <1>2, <1>5, <3>1, LastStepIs DEF PacketInv, ModeInv, Absent, NoDialogue
      <3>2. CASE mouse.kind # "absent"
        <4>1. 26 \notin DOMAIN Told /\ Waiting(27) = 0
          BY DEF Told, Waiting, Acknowledged
        <4> QED BY <1>2, <1>5, <3>2, <4>1, LastStepIs DEF PacketInv, ModeInv, Present, Dialogue
      <3> QED BY <3>1, <3>2
    <2>3. out' = <<>>
      <3>1. out = <<>>
        BY <2>2, PacketTypes
      <3> QED BY <1>2, <3>1 DEF TakeByte
    <2>4. mouse_cycle = 0
      BY <1>2, PacketTypes, LastStepIs DEF TypeInv, HandlersWait
    <2> DEFINE p == [move |-> 0, byte |-> 0]
               place == [i \in 0 .. 0 |-> p]
    <2>5. place[0] = p /\ p \in Places /\ p.byte = 0 /\ p.move = 0
      BY DEF Places
    <2>6. Follow(place, <<>>, <<>>, mouse.id)
      <3>1. place \in [0 .. 0 -> Places]
        BY <2>5
      <3> QED BY <2>5, <3>1 DEF Follow
    <2>7. Handled(p, <<>>, mouse.id, 0, mouse_byte, <<>>)
      <3>1. First(<<>>, 0) = <<>>
        BY DEF First
      <3>2. PacketsOf(<<>>, mouse.id) = <<>>
        BY PacketsEquations
      <3>3. 0 <= Final(mouse.id) /\ 0 <= Len(<<>>) /\ ~(0 > 0)
        BY DEF Final
      <3> HIDE DEF place
      <3> QED BY <2>5, <3>1, <3>2, <3>3 DEF Handled
    <2> HIDE DEF p, place
    <2> QED BY <1>2, <2>1, <2>3, <2>4, <2>5, <2>6, <2>7 DEF Stream
  <1> QED BY <1>1, <1>2, <1>3, <1>4, <1>5 DEF PacketInv, Whole

\* nothing of the stream changes
LEMMA StreamStays ==
  ASSUME UNCHANGED <<out, sent, mouse, mouse_cycle, mouse_byte, decoded>>, Stream
  PROVE  Stream'
  BY DEF Stream

\* a byte of the keyboard is taken
LEMMA KeyTaken ==
  ASSUME PacketInv, Stream, NEW latched \in SUBSET {"kbd", "aux"}, TakeByte(latched),
         out = <<>> \/ Src(out) # "aux",
         UNCHANGED <<sent, mouse, mouse_cycle, mouse_byte, decoded>>
  PROVE  Stream'
  <1>0. out \in Seq(Message) /\ port60 \in Byte
    BY PacketTypes
  <1>1. CASE out = <<>>
    BY <1>1, StreamStays DEF TakeByte
  <1>2. CASE out # <<>>
    <2>1. Gone
      BY <1>0, TakeEffect
    <2>2. /\ out' \in Seq(Message) /\ Len(out) = Len(out') + 1
          /\ \A i \in 1 .. Len(out') : out'[i] = out[i + 1]
      BY <1>0, <1>2, <2>1 DEF Gone
    <2>3. out[1].src # "aux"
      BY <1>0, <1>2 DEF Src
    <2>4. PICK place : /\ Follow(place, out, sent, mouse.id)
                       /\ Handled(place[0], sent, mouse.id, mouse_cycle, mouse_byte, decoded)
      BY DEF Stream
    <2> DEFINE there == [i \in 0 .. Len(out') |-> place[i + 1]]
    <2>5. Carries(out[1], place[0], place[1], sent, mouse.id) /\ Follow(there, out', sent, mouse.id)
      BY <1>0, <2>2, <2>4, FollowRest
    <2>6. place[1] = place[0]
      BY <2>3, <2>5 DEF Carries
    <2>7. there[0] = place[1]
      BY <2>2
    <2> HIDE DEF there
    <2> QED BY <2>4, <2>5, <2>6, <2>7 DEF Stream
  <1> QED BY <1>1, <1>2

\* a byte of the mouse is handled
LEMMA ByteHandled ==
  ASSUME NEW moves \in Seq(Moves), NEW id \in {0, 3}, mouse_mode = "SCROLLWHEEL" <=> id = 3,
         mouse_mode \in {"DEFAULT", "SCROLLWHEEL"}, mouse_byte \in [0 .. 3 -> Byte],
         NEW p \in Places, Handled(p, moves, id, mouse_cycle, mouse_byte, decoded),
         NEW v, p.move < Len(moves), p.byte <= Final(id),
         v = Encoded(moves[p.move + 1], id)[p.byte + 1],
         MouseByte(v)
  PROVE  Handled(NextPlace(p, id), moves, id, mouse_cycle', mouse_byte', decoded')
  <1> DEFINE m == moves[p.move + 1]
             c == mouse_cycle
  <1>1. /\ p.move \in Nat /\ p.move \in 0 .. Len(moves) - 1 /\ p.move + 1 \in 0 .. Len(moves)
        /\ c = p.byte /\ c \in 0 .. 3 /\ m \in Moves /\ Len(moves) \in Nat
    BY LenProperties DEF Places, Handled
  <1>2. LastByte = Final(id) /\ Final(id) \in {2, 3}
    BY DEF LastByte, Final
  <1>3. mouse_byte' = [mouse_byte EXCEPT ![c] = v] /\ v = Encoded(m, id)[c + 1]
    BY <1>1 DEF MouseByte
  <1>4. Stored(mouse_byte, c, m, id)
    <2>1. CASE c = 0
      BY <2>1 DEF Stored
    <2>2. CASE c # 0
      BY <1>1, <2>2 DEF Handled
    <2> QED BY <2>1, <2>2
  <1> HIDE DEF m, c
  <1>5. Stored(mouse_byte', c + 1, m, id)
    <2> SUFFICES ASSUME NEW k \in 0 .. 3, k < c + 1 PROVE mouse_byte'[k] = Encoded(m, id)[k + 1]
      BY DEF Stored
    <2>1. CASE k = c
      BY <1>1, <1>3, <2>1
    <2>2. CASE k # c
      <3>1. k < c /\ mouse_byte'[k] = mouse_byte[k]
        BY <1>1, <1>3, <2>2
      <3> QED BY <1>4, <3>1 DEF Stored
    <2> QED BY <2>1, <2>2
  <1>6. decoded = PacketsOf(First(moves, p.move), id)
    BY DEF Handled
  <1>7. CASE c = Final(id)
    <2>1. FinishPacket(mouse_byte')
      BY <1>2, <1>7 DEF MouseByte, c
    <2>2. mouse_byte'[0] = FirstByte(m)
      <3>1. mouse_byte'[0] = Encoded(m, id)[0 + 1]
        <4>1. 0 \in 0 .. 3 /\ 0 < c + 1
          BY <1>1
        <4> QED BY <1>5, <4>1 DEF Stored
      <3> QED BY <1>1, <3>1, EncodedIs
    <2>3. Packet(mouse_byte') = Meaning(m, id)
      BY <1>1, <1>5, <1>7, WholePacket
    <2>4. ~HasBit(mouse_byte'[0], 128) /\ (HasBit(mouse_byte'[0], 64) <=> m.overflow)
      BY <1>1, <2>2, FirstByteTells
    <2>5. mouse_cycle' = 0 /\ decoded' = Further(decoded, m, id)
      BY <2>1, <2>3, <2>4 DEF FinishPacket, Further
    <2>6. PacketsOf(First(moves, p.move + 1), id) = Further(PacketsOf(First(moves, p.move), id), m, id)
      <3>1. First(moves, p.move) \in Seq(Moves)
        <4>1. p.move \in 0 .. Len(moves)
          BY <1>1
        <4> QED BY <4>1, FirstOfMoves
      <3>2. First(moves, p.move + 1) = Append(First(moves, p.move), moves[p.move + 1])
        BY <1>1, FirstOfMoves
      <3>3. First(moves, p.move + 1) = Append(First(moves, p.move), m)
        BY <3>2 DEF m
      <3> QED BY <1>1, <3>1, <3>3, PacketsEquations
    <2> DEFINE q == NextPlace(p, id)
    <2>7. q.move = p.move + 1 /\ q.byte = 0
      BY <1>1, <1>7 DEF NextPlace
    <2>8. q.move <= Len(moves) /\ 0 <= Final(id) /\ ~(0 > 0)
      BY <1>1, <1>2, <2>7
    <2> HIDE DEF q
    <2>9. Handled(q, moves, id, mouse_cycle', mouse_byte', decoded')
      BY <1>6, <2>5, <2>6, <2>7, <2>8 DEF Handled
    <2> QED BY <2>9 DEF q
  <1>8. CASE c # Final(id)
    <2>1. c = 0 => HasBit(v, 8)
      <3>1. c = 0 => v = FirstByte(m)
        BY <1>1, <1>3, EncodedIs
      <3> QED BY <1>1, <3>1, FirstByteTells
    <2>2. mouse_cycle' = c + 1 /\ decoded' = decoded
      BY <1>2, <1>8, <2>1 DEF MouseByte, c
    <2> DEFINE q == NextPlace(p, id)
    <2>3. q.move = p.move /\ q.byte = c + 1
      BY <1>1, <1>8 DEF NextPlace
    <2>4. q.move <= Len(moves) /\ q.move < Len(moves) /\ c + 1 <= Final(id)
      BY <1>1, <1>2, <1>8, <2>3
    <2> HIDE DEF q
    <2>5. moves[q.move + 1] = m
      BY <2>3 DEF m
    <2>6. Handled(q, moves, id, mouse_cycle', mouse_byte', decoded')
      BY <1>5, <1>6, <2>2, <2>3, <2>4, <2>5 DEF Handled
    <2> QED BY <2>6 DEF q
  <1> QED BY <1>7, <1>8

LEMMA HandlersPacket ==
  ASSUME PacketInv, Handlers
  PROVE  PacketInv'
  <1>1. ModeInv'
    BY OthersMode DEF PacketInv
  <1>2. /\ UNCHANGED <<step, mouse_mode, mouse, sent, calm>> /\ (stolen => stolen') /\ step > LastStep
    <2>1. UNCHANGED <<step, mouse_mode, mouse, sent, calm>>
      BY DEF Handlers, KeyboardHandler, MouseHandler, ReadNext, PassPacket, initVars, deviceVars
    <2>a. stolen => stolen'
      BY Zenon DEF Handlers, KeyboardHandler, MouseHandler, ReadNext, PassPacket
    <2>2. step \in 1 .. 28 /\ TypeInv
      BY PacketTypes
    <2>3. step > LastStep
      BY <2>2, LastStepIs
         DEF Handlers, KeyboardHandler, MouseHandler, ReadNext, PassPacket, Initialised, TypeInv,
             HandlersWait
    <2> QED BY <2>1, <2>a, <2>3
  <1>3. sent' \in Seq(Moves)
    BY <1>2 DEF PacketInv
  <1>4. Silent'
    <2>a. step \in 1 .. 28
      BY PacketTypes
    <2>1. ~(step <= LastStep)
      BY <1>2, <2>a, LastStepIs
    <2> QED BY <1>2, <2>1, LastStepIs DEF Silent
  <1>5. ASSUME calm, ~stolen' PROVE Stream'
    <2>1. Stream /\ Agreed
      BY <1>2, <1>5 DEF PacketInv, Whole, ModeInv, After28
    <2>2. CASE KeyboardHandler
      <3>1. /\ TakeByte(irr \ {"kbd"}) /\ (out = <<>> \/ Src(out) # "aux")
            /\ UNCHANGED <<sent, mouse, mouse_cycle, mouse_byte, decoded>>
        BY <1>5, <2>2 DEF KeyboardHandler, cycleVars, deviceVars
      <3>2. irr \ {"kbd"} \in SUBSET {"kbd", "aux"}
        BY PacketTypes
      <3> QED BY <2>1, <3>1, <3>2, KeyTaken
    <2>3. CASE MouseHandler \/ PassPacket
      BY <2>1, <2>3, StreamStays DEF MouseHandler, PassPacket, ctlVars, deviceVars
    <2>4. CASE ReadNext /\ Src(out) # "aux"
      <3>1. TakeByte(irr) /\ UNCHANGED <<sent, mouse, mouse_cycle, mouse_byte, decoded>>
        BY <2>4 DEF ReadNext, deviceVars
      <3>2. irr \in SUBSET {"kbd", "aux"}
        BY PacketTypes
      <3> QED BY <2>1, <2>4, <3>1, <3>2, KeyTaken
    <2>5. CASE ReadNext /\ Src(out) = "aux"
      <3>0. /\ out \in Seq(Message) /\ port60 \in Byte /\ irr \in SUBSET {"kbd", "aux"}
            /\ mouse.id \in {0, 3} /\ sent \in Seq(Moves) /\ mouse_byte \in [0 .. 3 -> Byte]
            /\ mouse_mode \in {"DEFAULT", "SCROLLWHEEL"}
        BY PacketTypes DEF TypeInv, MouseTypeOK
      <3>1. out # <<>> /\ TakeByte(irr) /\ MouseByte(Head(out).val) /\ sent' = sent /\ mouse' = mouse
        BY <2>5 DEF ReadNext, deviceVars
      <3>2. out[1].src = "aux" /\ Head(out).val = out[1].val
        BY <2>5, <3>0, <3>1 DEF Src
      <3>3. Gone
        BY <3>0, <3>1, TakeEffect
      <3>4. /\ out' \in Seq(Message) /\ Len(out) = Len(out') + 1
            /\ \A i \in 1 .. Len(out') : out'[i] = out[i + 1]
        BY <3>0, <3>1, <3>3 DEF Gone
      <3>5. PICK place : /\ Follow(place, out, sent, mouse.id)
                         /\ Handled(place[0], sent, mouse.id, mouse_cycle, mouse_byte, decoded)
        BY <2>1 DEF Stream
      <3> DEFINE there == [i \in 0 .. Len(out') |-> place[i + 1]]
                 p == place[0]
      <3>6. /\ p \in Places
            /\ Carries(out[1], p, place[1], sent, mouse.id)
            /\ Follow(there, out', sent, mouse.id)
        BY <3>0, <3>4, <3>5, FollowRest
      <3>7. there[0] = place[1]
        BY <3>4
      <3> HIDE DEF there, p
      <3>8. /\ p.move < Len(sent) /\ p.byte <= Final(mouse.id)
            /\ out[1].val = Encoded(sent[p.move + 1], mouse.id)[p.byte + 1]
            /\ place[1] = NextPlace(p, mouse.id)
        BY <3>2, <3>6 DEF Carries
      <3>9. mouse_mode = "SCROLLWHEEL" <=> mouse.id = 3
        BY <2>1 DEF Agreed
      <3>10. Handled(p, sent, mouse.id, mouse_cycle, mouse_byte, decoded)
        BY <3>5 DEF p
      <3>11. MouseByte(out[1].val)
        BY <3>1, <3>2
      <3>12. Handled(NextPlace(p, mouse.id), sent, mouse.id, mouse_cycle', mouse_byte', decoded')
        BY <3>0, <3>6, <3>8, <3>9, <3>10, <3>11, ByteHandled
      <3> QED BY <3>1, <3>6, <3>7, <3>8, <3>12 DEF Stream
    <2> QED BY <2>2, <2>3, <2>4, <2>5 DEF Handlers
  <1> QED BY <1>1, <1>2, <1>3, <1>4, <1>5 DEF PacketInv, Whole

LEMMA ArriveMore ==
  ASSUME out \in Seq(Message), irr \subseteq {"kbd", "aux"},
         NEW src \in {"kbd", "aux"}, NEW values \in Seq(Byte), Arrive(src, values)
  PROVE  More(out, out', src, values)
  <1> DEFINE bytes == [i \in 1 .. Len(values) |-> [src |-> src, val |-> values[i]]]
  <1>1. Came(values)
    BY ArriveEffect
  <1>2. bytes \in Seq(Message) /\ Len(bytes) = Len(values)
        /\ \A i \in 1 .. Len(values) : bytes[i].src = src
    BY DEF Message
  <1>3. out' = out \o bytes
    BY DEF Arrive
  <1> HIDE DEF bytes
  <1>4. \A i \in 1 .. Len(values) : out'[Len(out) + i] = bytes[i]
    <2>1. Sized(Message, out, Len(out)) /\ Sized(Message, bytes, Len(values))
      BY <1>2 DEF Sized
    <2>2. Len(out) \in Nat /\ Len(values) \in Nat
      OBVIOUS
    <2>3. Joins(out \o bytes, out, Len(out), bytes, Len(values))
      BY <2>1, <2>2, Joined
    <2> QED BY <1>3, <2>3 DEF Joins, Does
  <1> QED BY <1>1, <1>2, <1>4 DEF More, Came

LEMMA DevicesPacket ==
  ASSUME PacketInv, Devices
  PROVE  PacketInv'
  <1>0. /\ out \in Seq(Message) /\ irr \subseteq {"kbd", "aux"} /\ sent \in Seq(Moves)
        /\ mouse.id \in {0, 3} /\ step \in 1 .. 28
    BY PacketTypes
  <1>1. ModeInv'
    BY MouseAnswersMode, OthersMode DEF PacketInv, Devices
  <1>2. UNCHANGED <<step, stolen, mouse_cycle, mouse_byte, decoded>>
    BY DEF Devices, MouseAnswers, Move, KeyStroke, initVars, cycleVars
  <1>3. CASE MouseAnswers
    <2>1. sent' = sent /\ calm' = calm /\ inbox # <<>>
      BY <1>3 DEF MouseAnswers
    <2>2. calm /\ step > LastStep => UNCHANGED <<out, mouse>>
      BY <1>3, <2>1 DEF MouseAnswers, PacketInv, ModeInv, After28, Agreed
    <2>3. Whole'
      BY <1>2, <2>1, <2>2, StreamStays, LastStepIs DEF PacketInv, Whole
    <2>4. Silent'
      BY <1>2, <2>1, LastStepIs DEF PacketInv, Silent
    <2> QED BY <1>0, <1>1, <2>1, <2>3, <2>4 DEF PacketInv
  <1>4. ASSUME NEW m \in Moves, Move(m) PROVE PacketInv'
    <2>1. /\ calm' = (calm /\ Initialised) /\ mouse' = mouse /\ sent' = Append(sent, m)
          /\ Arrive("aux", Encoded(m, mouse.id))
      BY <1>4 DEF Move
    <2>2. sent' \in Seq(Moves)
      BY <1>0, <2>1
    <2>a. calm' => step > LastStep
      BY <2>1 DEF Initialised
    <2>3. Silent'
      BY <1>0, <1>2, <2>a, LastStepIs DEF Silent
    <2>4. ASSUME calm, ~stolen, step > LastStep PROVE Stream'
      <3>1. PICK place : /\ Follow(place, out, sent, mouse.id)
                         /\ Handled(place[0], sent, mouse.id, mouse_cycle, mouse_byte, decoded)
        BY <2>4 DEF PacketInv, Whole, Stream
      <3>2. Encoded(m, mouse.id) \in Seq(Byte)
        BY MouseAssumption, EncodedBytes
      <3>3. More(out, out', "aux", Encoded(m, mouse.id))
        BY <1>0, <2>1, <3>2, ArriveMore
      <3>4. PICK there : /\ Follow(there, out', Append(sent, m), mouse.id)
                         /\ there[0] = place[0]
        BY <1>0, <3>1, <3>3, FollowMove
      <3>5. place[0] \in Places
        <4>1. 0 \in 0 .. Len(out)
          BY <1>0
        <4> QED BY <3>1, <4>1 DEF Follow
      <3>6. Handled(place[0], Append(sent, m), mouse.id, mouse_cycle, mouse_byte, decoded)
        BY <1>0, <3>1, <3>5, HandledStill
      <3> QED BY <1>2, <2>1, <3>4, <3>6 DEF Stream
    <2>5. Whole'
      BY <1>2, <2>1, <2>4, LastStepIs DEF Whole
    <2> QED BY <1>1, <2>2, <2>3, <2>5 DEF PacketInv
  <1>5. ASSUME NEW k \in Keys, KeyStroke(k) PROVE PacketInv'
    <2>1. /\ calm' = (calm /\ Initialised) /\ mouse' = mouse /\ sent' = sent
          /\ Arrive("kbd", <<k>>)
      BY <1>5 DEF KeyStroke
    <2>2. sent' \in Seq(Moves)
      BY <1>0, <2>1
    <2>a. calm' => step > LastStep
      BY <2>1 DEF Initialised
    <2>3. Silent'
      BY <1>0, <1>2, <2>a, LastStepIs DEF Silent
    <2>4. ASSUME calm, ~stolen, step > LastStep PROVE Stream'
      <3>1. PICK place : /\ Follow(place, out, sent, mouse.id)
                         /\ Handled(place[0], sent, mouse.id, mouse_cycle, mouse_byte, decoded)
        BY <2>4 DEF PacketInv, Whole, Stream
      <3>2. <<k>> \in Seq(Byte)
        BY MouseAssumption DEF MouseAssumption, Byte
      <3>3. More(out, out', "kbd", <<k>>)
        BY <1>0, <2>1, <3>2, ArriveMore
      <3>4. PICK there : Follow(there, out', sent, mouse.id) /\ there[0] = place[0]
        BY <1>0, <3>1, <3>3, FollowKey
      <3> QED BY <1>2, <2>1, <3>1, <3>4 DEF Stream
    <2>5. Whole'
      BY <1>2, <2>1, <2>4, LastStepIs DEF Whole
    <2> QED BY <1>1, <2>2, <2>3, <2>5 DEF PacketInv
  <1> QED BY <1>3, <1>4, <1>5 DEF Devices

LEMMA PacketStep == PacketInv /\ [MouseNext]_vars => PacketInv'
  <1> SUFFICES ASSUME PacketInv, [MouseNext]_vars PROVE PacketInv'
    OBVIOUS
  <1>1. CASE InitMouse
    BY <1>1, DialoguePacket, FinishInitPacket DEF InitMouse
  <1>2. CASE Handlers
    BY <1>2, HandlersPacket
  <1>3. CASE Devices
    BY <1>3, DevicesPacket
  <1>4. CASE UNCHANGED vars
    <2>1. ModeInv'
      BY <1>4, ModeStep DEF PacketInv
    <2>2. UNCHANGED <<step, calm, stolen, out, sent, mouse, mouse_cycle, mouse_byte, decoded>>
      BY <1>4 DEF vars, ctlVars, initVars, cycleVars, deviceVars
    <2> QED BY <2>1, <2>2, StreamStays DEF PacketInv, Silent, Whole
  <1> QED BY <1>1, <1>2, <1>3, <1>4 DEF MouseNext

LEMMA PacketsFollow == PacketInv => PacketsAreWhole
  <1> SUFFICES ASSUME PacketInv, calm, ~stolen
               PROVE  IsPrefix(decoded, Reported) /\ (out = <<>> => decoded = Reported)
    BY DEF PacketsAreWhole
  <1>0. step \in 1 .. 28 /\ sent \in Seq(Moves)
    BY PacketTypes
  <1>1. CASE step <= LastStep
    <2>1. sent = <<>> /\ decoded = <<>>
      BY <1>1 DEF PacketInv, Silent
    <2>2. Reported = <<>>
      BY <2>1, PacketsEquations DEF Reported
    <2>3. IsPrefix(<<>>, <<>>)
      BY DEF IsPrefix
    <2> QED BY <2>1, <2>2, <2>3
  <1>2. CASE step > LastStep
    <2>1. PICK place : /\ Follow(place, out, sent, mouse.id)
                       /\ Handled(place[0], sent, mouse.id, mouse_cycle, mouse_byte, decoded)
      BY <1>2 DEF PacketInv, Whole, Stream
    <2> DEFINE p == place[0]
    <2>2. out \in Seq(Message) /\ 0 \in 0 .. Len(out)
      BY PacketTypes
    <2>3. p \in Places
      BY <2>1, <2>2 DEF Follow
    <2>4. p.move \in 0 .. Len(sent) /\ decoded = PacketsOf(First(sent, p.move), mouse.id)
      <3> HIDE DEF p
      <3>1. Handled(p, sent, mouse.id, mouse_cycle, mouse_byte, decoded)
        BY <2>1 DEF p
      <3>2. p.move \in Nat /\ Len(sent) \in Nat
        BY <1>0, <2>3, LenProperties DEF Places
      <3> QED BY <3>1, <3>2 DEF Handled
    <2>5. IsPrefix(decoded, Reported)
      BY <1>0, <2>4, PacketsBegin DEF Reported
    <2>6. ASSUME out = <<>> PROVE decoded = Reported
      <3>1. p = [move |-> Len(sent), byte |-> 0]
        BY <2>1, <2>6 DEF Follow
      <3>2. First(sent, p.move) = sent
        BY <1>0, <3>1, FirstOfMoves
      <3> QED BY <2>4, <3>2 DEF Reported
    <2> QED BY <2>5, <2>6
  <1> QED BY <1>0, <1>1, <1>2, LastStepIs

(* Unless init_mouse was disturbed or the keyboard's handler took a byte   *)
(* of the mouse, the packets finished are those the mouse sent, in order,  *)
(* whole, and all of them when the controller is empty (ps2mouse.c:28-72): *)
(* for any movements, any number of them, and any keys in between.         *)
THEOREM PacketsStayWhole == MouseSpec => []PacketsAreWhole
  BY InitPacket, PacketStep, PacketsFollow, PTL DEF MouseSpec
=============================================================================
