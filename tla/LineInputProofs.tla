--------------------------- MODULE LineInputProofs ---------------------------
(***************************************************************************)
(* Theorems about the keyboard's buffer and its two readers, for every     *)
(* size of the buffer, every table of keys and every length of a line.     *)
(***************************************************************************)
EXTENDS LineInput, SequenceTheorems, WellFoundedInduction, TLAPS

Byte == 0 .. 255

\* keyboard_get_key is under way in the shell only; its counter stays in the buffer
GetKeyTypeOK ==
  /\ pc \in {"out", "test", "count", "shift"}
  /\ i \in Slots /\ first \in Byte /\ tested \in Slots
  /\ reader \in {"process", "shell"}
  /\ pc # "out" => reader = "shell"

\* what was read first is what waits first, unless IRQ1 came into an empty buffer
FirstIsFirst == pc \in {"test", "count"} /\ last # 0 /\ ~hit => first = kb_buf[0]

LineInv == KbTypeOK /\ GetKeyTypeOK /\ FirstIsFirst

\* the counter has fallen below 0: nothing happens any more
Astray == last = -1 /\ hit /\ reader = "shell" /\ BufferTypeOK /\ GetKeyTypeOK

LEMMA KeyboardConstants ==
  /\ KB_BUF_SIZE \in Nat \ {0}
  /\ ScanCodes \subseteq Byte /\ ShellCodes \subseteq ScanCodes
  BY KeyboardAssumption, LineAssumption, Zenon DEF Byte

LEMMA BufferHasASlot == 0 \in Slots /\ \A n \in Slots : n \in Nat
  BY KeyboardConstants DEF Slots

\* what a key stands for is a byte, with and without shift
LEMMA KeysAreBytes ==
  \A k \in 0 .. 127 :
    /\ kbdus[k] \in KeyChars \cap Byte
    /\ kbdusShift[k] \in KeyChars \cap Byte
  BY KeyboardAssumption, ZenonT(30) DEF KeyChars, Byte

(* The waiting keys of a buffer: a sequence as long as the counter says.   *)
Keys(buf, n, at, moved) ==
  [k \in 1 .. n |-> IF at = "shift" /\ k > moved THEN buf[k] ELSE buf[k - 1]]

LEMMA KeysAreASequence ==
  ASSUME NEW buf \in [Slots -> Byte], NEW n \in Slots, NEW at, NEW moved \in Slots
  PROVE  /\ Keys(buf, n, at, moved) \in Seq(Byte)
         /\ Len(Keys(buf, n, at, moved)) = n
         /\ \A k \in 1 .. n : Keys(buf, n, at, moved)[k] =
              IF at = "shift" /\ k > moved THEN buf[k] ELSE buf[k - 1]
  <1>1. n \in Nat /\ \A k \in 1 .. n : k \in Slots /\ k - 1 \in Slots
    BY KeyboardConstants DEF Slots
  <1>2. Keys(buf, n, at, moved) \in [1 .. n -> Byte]
    BY <1>1 DEF Keys
  <1>3. Keys(buf, n, at, moved) \in Seq(Byte)
    BY <1>1, <1>2, SeqDef
  <1>4. Len(Keys(buf, n, at, moved)) = n
    BY <1>1, <1>2, <1>3, LenProperties DEF Keys
  <1> QED BY <1>3, <1>4 DEF Keys

\* two buffers with the same keys waiting
LEMMA SameKeys ==
  ASSUME NEW buf \in [Slots -> Byte], NEW buf2 \in [Slots -> Byte], NEW n \in Slots,
         NEW at, NEW at2, NEW moved \in Slots, NEW moved2 \in Slots,
         \A k \in 1 .. n :
           (IF at = "shift" /\ k > moved THEN buf[k] ELSE buf[k - 1]) =
           (IF at2 = "shift" /\ k > moved2 THEN buf2[k] ELSE buf2[k - 1])
  PROVE  Keys(buf, n, at, moved) = Keys(buf2, n, at2, moved2)
  BY DEF Keys

-----------------------------------------------------------------------------
LEMMA LineInitInv == LineInit => LineInv
  <1> SUFFICES ASSUME LineInit PROVE LineInv
    OBVIOUS
  <1>1. KbTypeOK
    BY BufferHasASlot DEF LineInit, KbInit, KbTypeOK, BufferTypeOK
  <1>2. GetKeyTypeOK /\ FirstIsFirst
    BY BufferHasASlot DEF LineInit, KbInit, GetKeyTypeOK, FirstIsFirst, Byte
  <1> QED BY <1>1, <1>2 DEF LineInv

(* keyboard_handler stores at most one key, at the place the counter names *)
(* and below the end of the buffer.                                        *)
LEMMA HandlerEffect ==
  ASSUME KbTypeOK, NEW code \in ScanCodes, keyboard_handler(code)
  PROVE  /\ KbTypeOK' /\ c' = c
         /\ \/ UNCHANGED <<kb_buf, last>>
            \/ \E ch \in KeyChars \cap Byte :
                 /\ kb_buf' = [kb_buf EXCEPT ![last] = ch]
                 /\ \/ last + 1 < KB_BUF_SIZE /\ last' = last + 1
                    \/ last + 1 = KB_BUF_SIZE /\ last' = 0
  <1>0. KB_BUF_SIZE \in Nat \ {0} /\ last \in Slots /\ 0 \in Slots /\ code \in 0 .. 255
    BY KeyboardConstants, BufferHasASlot DEF KbTypeOK, BufferTypeOK, Byte
  <1>1. CASE IgnoredKey(code) \/ SilencedKey(code)
    BY <1>1 DEF IgnoredKey, SilencedKey, kbVars, KbTypeOK, BufferTypeOK
  <1>2. CASE ModifierKey(code)
    BY <1>2 DEF ModifierKey, KbTypeOK, BufferTypeOK, FlagOf
  <1>3. CASE CharacterKey(code)
    <2>1. Char(code) \in KeyChars \cap Byte
      BY <1>0, <1>3, KeysAreBytes DEF CharacterKey, Char
    <2>2. kb_buf' = [kb_buf EXCEPT ![last] = Char(code)]
      BY <1>3 DEF CharacterKey
    <2>3. \/ last + 1 < KB_BUF_SIZE /\ last' = last + 1
          \/ last + 1 = KB_BUF_SIZE /\ last' = 0
      BY <1>0, <1>3 DEF CharacterKey, Counted, Slots
    <2>4. KbTypeOK'
      BY <1>0, <1>3, <2>1, <2>2, <2>3 DEF KbTypeOK, BufferTypeOK, CharacterKey, Slots, Byte
    <2> QED BY <1>3, <2>1, <2>2, <2>3, <2>4 DEF CharacterKey
  <1> QED BY <1>1, <1>2, <1>3 DEF keyboard_handler

(* A key stored where it is neither missed nor moved is the last to wait.  *)
LEMMA StoredIsAppended ==
  ASSUME LineInv, KbTypeOK', UNCHANGED <<pc, i>>, ~Hits,
         NEW ch \in Byte, kb_buf' = [kb_buf EXCEPT ![last] = ch],
         last + 1 < KB_BUF_SIZE, last' = last + 1
  PROVE  Waiting' = Append(Waiting, ch)
  <1>1. /\ kb_buf \in [Slots -> Byte] /\ last \in Slots /\ i \in Slots
        /\ kb_buf' \in [Slots -> Byte] /\ last' \in Slots
        /\ pc' = pc /\ i' = i
    BY DEF LineInv, KbTypeOK, BufferTypeOK, GetKeyTypeOK, Byte
  <1>2. /\ Waiting = Keys(kb_buf, last, pc, i)
        /\ Waiting' = Keys(kb_buf', last', pc, i)
    BY <1>1 DEF Waiting, Keys
  <1>3. Waiting \in Seq(Byte) /\ Len(Waiting) = last
    BY <1>1, <1>2, KeysAreASequence
  <1>4. last \in Nat /\ last + 1 \in Slots /\ i \in Nat
    BY <1>1, BufferHasASlot
  <1>5. /\ Waiting' \in Seq(Byte) /\ Len(Waiting') = last + 1
        /\ \A k \in 1 .. last + 1 : Waiting'[k] =
             IF pc = "shift" /\ k > i THEN kb_buf'[k] ELSE kb_buf'[k - 1]
    <2>1. Waiting' = Keys(kb_buf', last + 1, pc, i)
      BY <1>2
    <2>2. PICK buf : buf = kb_buf'
      OBVIOUS
    <2>3. Waiting' = Keys(buf, last + 1, pc, i) /\ buf \in [Slots -> Byte]
      BY <1>1, <2>1, <2>2
    <2>4. PICK n : n = last + 1
      OBVIOUS
    <2>5. n \in Slots /\ i \in Slots
      BY <1>1, <1>4, <2>4
    <2>6. /\ Keys(buf, n, pc, i) \in Seq(Byte) /\ Len(Keys(buf, n, pc, i)) = n
          /\ \A k \in 1 .. n : Keys(buf, n, pc, i)[k] =
               IF pc = "shift" /\ k > i THEN buf[k] ELSE buf[k - 1]
      BY <2>3, <2>5, KeysAreASequence
    <2> QED BY <2>2, <2>3, <2>4, <2>6
  <1>6. /\ Append(Waiting, ch) \in Seq(Byte) /\ Len(Append(Waiting, ch)) = last + 1
        /\ \A k \in 1 .. last : Append(Waiting, ch)[k] =
             IF pc = "shift" /\ k > i THEN kb_buf[k] ELSE kb_buf[k - 1]
        /\ Append(Waiting, ch)[last + 1] = ch
    <2>1. \A k \in 1 .. last : Waiting[k] =
             IF pc = "shift" /\ k > i THEN kb_buf[k] ELSE kb_buf[k - 1]
      BY <1>1, <1>2, KeysAreASequence
    <2> QED BY <1>3, <2>1, AppendProperties
  <1>7. pc = "shift" => last < i
    BY <1>1 DEF Hits, Slots
  <1>8. \A k \in 1 .. last + 1 : Waiting'[k] = Append(Waiting, ch)[k]
    <2> SUFFICES ASSUME NEW k \in 1 .. last + 1 PROVE Waiting'[k] = Append(Waiting, ch)[k]
      OBVIOUS
    <2>1. Waiting'[k] = kb_buf'[k - 1]
      BY <1>1, <1>5, <1>7 DEF Slots
    <2>2. CASE k = last + 1
      BY <1>1, <1>6, <2>1, <2>2 DEF Slots
    <2>3. CASE k # last + 1
      <3>1. k \in 1 .. last /\ k - 1 # last
        BY <1>1, <2>3 DEF Slots
      <3>2. kb_buf'[k - 1] = kb_buf[k - 1]
        BY <1>1, <3>1
      <3> QED BY <1>1, <1>6, <1>7, <2>1, <3>1, <3>2 DEF Slots
    <2> QED BY <2>2, <2>3
  <1> QED BY <1>5, <1>6, <1>8, SeqEqual

(* One key more waits, or the buffer was full and none does any more,      *)
(* unless the key went where keyboard_get_key has just read or still moves.*)
LEMMA HandlerIsPut ==
  ASSUME LineInv, NEW code \in ScanCodes, keyboard_handler(code),
         UNCHANGED <<pc, i>>, ~Hits
  PROVE  (\E ch \in KeyChars : KQ!Put(ch)) \/ KQ!Overflow \/ UNCHANGED <<Waiting, c>>
  <1>1. /\ kb_buf \in [Slots -> Byte] /\ last \in Slots /\ i \in Slots
        /\ kb_buf' \in [Slots -> Byte] /\ last' \in Slots
        /\ c' = c /\ pc' = pc /\ i' = i /\ KbTypeOK'
    BY HandlerEffect DEF LineInv, KbTypeOK, BufferTypeOK, GetKeyTypeOK, Byte
  <1>2. /\ Waiting = Keys(kb_buf, last, pc, i)
        /\ Waiting' = Keys(kb_buf', last', pc, i)
    BY <1>1 DEF Waiting, Keys
  <1>3. Waiting \in Seq(Byte) /\ Len(Waiting) = last
    BY <1>1, <1>2, KeysAreASequence
  <1>4. CASE UNCHANGED <<kb_buf, last>>
    BY <1>1, <1>2, <1>4
  <1>5. ASSUME NEW ch \in KeyChars \cap Byte, kb_buf' = [kb_buf EXCEPT ![last] = ch],
               last + 1 < KB_BUF_SIZE, last' = last + 1
        PROVE  KQ!Put(ch)
    <2>1. Waiting' = Append(Waiting, ch)
      BY <1>1, <1>5, StoredIsAppended
    <2> QED BY <1>1, <1>3, <1>5, <2>1 DEF KQ!Put
  <1>6. CASE last + 1 = KB_BUF_SIZE /\ last' = 0
    <2>1. Waiting' = <<>>
      <3>1. Waiting' \in Seq(Byte) /\ Len(Waiting') = 0
        BY <1>1, <1>2, <1>6, KeysAreASequence
      <3> QED BY <3>1, EmptySeq
    <2> QED BY <1>1, <1>3, <1>6, <2>1 DEF KQ!Overflow
  <1> QED BY <1>4, <1>5, <1>6, HandlerEffect DEF LineInv

(* keyboard_get_key, whole, takes the first key, or finds none.            *)
LEMMA SyscallIsGet ==
  ASSUME LineInv, SyscallRead, UNCHANGED <<pc, i>>, pc = "out"
  PROVE  KbTypeOK' /\ (KQ!Get \/ KQ!GetNothing)
  <1>1. /\ kb_buf \in [Slots -> Byte] /\ last \in Slots /\ i \in Slots /\ last \in Nat
        /\ 0 \in Slots /\ KB_BUF_SIZE \in Nat \ {0}
    BY KeyboardConstants, BufferHasASlot DEF LineInv, KbTypeOK, BufferTypeOK, GetKeyTypeOK, Byte
  <1>2. Waiting = Keys(kb_buf, last, "out", i) /\ Waiting' = Keys(kb_buf', last', "out", i)
    BY DEF Waiting, Keys
  <1>3. /\ Waiting \in Seq(Byte) /\ Len(Waiting) = last
        /\ \A k \in 1 .. last : Waiting[k] = kb_buf[k - 1]
    BY <1>1, <1>2, KeysAreASequence
  <1>4. CASE last = 0
    <2>1. c' = 0 /\ UNCHANGED <<kb_buf, last, kb_flags>>
      BY <1>4 DEF SyscallRead, GetKey
    <2>2. Waiting = <<>> /\ Waiting' = Waiting
      BY <1>2, <1>3, <1>4, <2>1, EmptySeq
    <2> QED BY <2>1, <2>2 DEF LineInv, KbTypeOK, BufferTypeOK, KQ!GetNothing
  <1>5. CASE last # 0
    <2>1. /\ c' = kb_buf[0] /\ last' = last - 1 /\ UNCHANGED kb_flags
          /\ kb_buf' = [k \in Slots |-> IF k < KB_BUF_SIZE - 1 THEN kb_buf[k + 1] ELSE kb_buf[k]]
      BY <1>5 DEF SyscallRead, GetKey, First
    <2>2. kb_buf' \in [Slots -> Byte] /\ last' \in Slots
      BY <1>1, <1>5, <2>1 DEF Slots
    <2>3. /\ Waiting' \in Seq(Byte) /\ Len(Waiting') = last'
          /\ \A k \in 1 .. last' : Waiting'[k] = kb_buf'[k - 1]
      <3> HIDE <2>1
      <3> QED BY <1>1, <1>2, <2>2, KeysAreASequence
    <2>4. Waiting # <<>>
      BY <1>3, <1>5, EmptySeq
    <2>5. /\ Tail(Waiting) \in Seq(Byte) /\ Len(Tail(Waiting)) = last - 1
          /\ \A k \in 1 .. last - 1 : Tail(Waiting)[k] = Waiting[k + 1]
          /\ Head(Waiting) = Waiting[1]
      BY <1>3, <2>4, HeadTailProperties
    <2>6. \A k \in 1 .. last - 1 : Waiting'[k] = Tail(Waiting)[k]
      <3> SUFFICES ASSUME NEW k \in 1 .. last - 1 PROVE Waiting'[k] = Tail(Waiting)[k]
        OBVIOUS
      <3>1. Tail(Waiting)[k] = kb_buf[k]
        BY <1>1, <1>3, <2>5
      <3>2. k - 1 \in Slots /\ k - 1 < KB_BUF_SIZE - 1
        BY <1>1 DEF Slots
      <3>3. kb_buf'[k - 1] = kb_buf[k]
        BY <1>1, <2>1, <3>2
      <3> QED BY <2>1, <2>3, <3>1, <3>3
    <2>7. Waiting' = Tail(Waiting)
      BY <1>1, <2>1, <2>3, <2>5, <2>6, SeqEqual
    <2>8. c' = Head(Waiting)
      BY <1>1, <1>3, <1>5, <2>1, <2>5
    <2>9. KbTypeOK'
      BY <1>1, <2>1, <2>2 DEF LineInv, KbTypeOK, BufferTypeOK, Byte
    <2> QED BY <2>4, <2>7, <2>8, <2>9 DEF KQ!Get
  <1> QED BY <1>4, <1>5

-----------------------------------------------------------------------------
(* A process reads in one step, with nothing under way.                    *)
LEMMA ProcessInv ==
  ASSUME LineInv, ProcessReads
  PROVE  LineInv' /\ (KQ!QueueNext \/ UNCHANGED <<Waiting, c>>)
  <1>1. pc = "out" /\ UNCHANGED <<reader, pc, i, first, tested, str, smashed, hit>>
    BY DEF LineInv, GetKeyTypeOK, ProcessReads, getchVars
  <1>2. CASE SyscallRead
    BY <1>1, <1>2, SyscallIsGet DEF KQ!QueueNext, LineInv, GetKeyTypeOK, FirstIsFirst
  <1>3. CASE \E code \in ScanCodes : keyboard_handler(code)
    <2>1. PICK code \in ScanCodes : keyboard_handler(code)
      BY <1>3
    <2>2. KbTypeOK' /\ ~Hits
      BY <1>1, <2>1, HandlerEffect DEF LineInv, Hits
    <2>3. LineInv'
      BY <1>1, <2>2 DEF LineInv, GetKeyTypeOK, FirstIsFirst
    <2> QED BY <1>1, <2>1, <2>2, <2>3, HandlerIsPut DEF KQ!QueueNext
  <1> QED BY <1>2, <1>3 DEF ProcessReads, KbNext

(* IRQ1 in the middle of the shell's keyboard_get_key.                     *)
LEMMA Irq1Inv ==
  ASSUME LineInv, Irq1
  PROVE  LineInv' /\ (KQ!QueueNext \/ UNCHANGED <<Waiting, c>> \/ hit')
  <1>1. PICK code \in ScanCodes : keyboard_handler(code)
    BY KeyboardConstants DEF Irq1
  <1>2. /\ UNCHANGED <<reader, pc, i, first, tested, str, smashed>>
        /\ hit' = (hit \/ Hits)
    BY DEF Irq1
  <1>3. KbTypeOK'
    BY <1>1, HandlerEffect DEF LineInv
  <1>4. FirstIsFirst'
    <2> SUFFICES ASSUME pc \in {"test", "count"}, last' # 0, ~hit' PROVE first = kb_buf'[0]
      BY <1>2 DEF FirstIsFirst
    <2>1. ~hit /\ ~Hits
      BY <1>2
    <2>2. /\ kb_buf \in [Slots -> Byte] /\ last \in Slots /\ last \in Nat /\ 0 \in Slots
      BY BufferHasASlot DEF LineInv, KbTypeOK, BufferTypeOK, Byte
    <2>3. CASE UNCHANGED <<kb_buf, last>>
      BY <2>1, <2>3 DEF LineInv, FirstIsFirst
    <2>4. ASSUME NEW ch \in KeyChars \cap Byte, kb_buf' = [kb_buf EXCEPT ![last] = ch],
                 last' = last + 1
          PROVE  first = kb_buf'[0]
      <3>1. last # 0
        BY <2>1, <2>2, <2>4 DEF Hits
      <3> QED BY <2>1, <2>2, <2>4, <3>1 DEF LineInv, FirstIsFirst
    <2> QED BY <1>1, <2>3, <2>4, HandlerEffect DEF LineInv
  <1>5. LineInv'
    BY <1>2, <1>3, <1>4 DEF LineInv, GetKeyTypeOK
  <1>6. CASE Hits
    BY <1>2, <1>5, <1>6
  <1>7. CASE ~Hits
    BY <1>1, <1>2, <1>5, <1>7, HandlerIsPut DEF KQ!QueueNext
  <1> QED BY <1>6, <1>7

LEMMA ReadFirstInv ==
  ASSUME LineInv, ReadFirst
  PROVE  LineInv' /\ UNCHANGED <<Waiting, c>>
  <1>1. /\ pc = "out" /\ pc' = "test" /\ first' = kb_buf[0] /\ reader = "shell"
        /\ UNCHANGED <<kb_buf, last, kb_flags, c, reader, i, tested>>
    BY DEF ReadFirst, Shell, First, kbVars
  <1>2. first' \in Byte
    BY <1>1, BufferHasASlot DEF LineInv, KbTypeOK, BufferTypeOK, Byte
  <1>3. LineInv'
    BY <1>1, <1>2 DEF LineInv, KbTypeOK, BufferTypeOK, GetKeyTypeOK, FirstIsFirst
  <1>4. Waiting' = Waiting
    BY <1>1 DEF Waiting
  <1> QED BY <1>1, <1>3, <1>4

(* An empty buffer is found empty; of any other the counter is remembered. *)
LEMMA TestLastEffect ==
  ASSUME LineInv, TestLast
  PROVE  /\ LineInv' /\ UNCHANGED Waiting
         /\ \/ Waiting = <<>> /\ c' = 0 /\ pc' = "out"
            \/ UNCHANGED c /\ pc' = "count"
  <1>1. /\ kb_buf \in [Slots -> Byte] /\ last \in Slots /\ i \in Slots
    BY DEF LineInv, KbTypeOK, BufferTypeOK, GetKeyTypeOK, Byte
  <1>2. /\ reader = "shell" /\ pc = "test"
        /\ UNCHANGED <<kb_buf, last, kb_flags, reader, i, first, hit>>
    BY DEF TestLast, Shell
  <1>3. pc' \in {"out", "count"} /\ Waiting' = Waiting
    BY <1>2 DEF TestLast, Waiting
  <1>4. CASE last = 0
    <2>1. pc' = "out" /\ c' = 0 /\ tested' = tested
      BY <1>4 DEF TestLast
    <2>2. LineInv'
      BY <1>1, <1>2, <2>1 DEF LineInv, KbTypeOK, BufferTypeOK, GetKeyTypeOK, FirstIsFirst
    <2>3. Waiting = Keys(kb_buf, last, pc, i)
      BY DEF Waiting, Keys
    <2>4. Waiting = <<>>
      BY <1>1, <1>4, <2>3, KeysAreASequence, EmptySeq
    <2> QED BY <1>3, <2>1, <2>2, <2>4
  <1>5. CASE last # 0
    <2>1. pc' = "count" /\ c' = c /\ tested' = last
      BY <1>5 DEF TestLast
    <2>2. LineInv'
      BY <1>1, <1>2, <2>1 DEF LineInv, KbTypeOK, BufferTypeOK, GetKeyTypeOK, FirstIsFirst
    <2> QED BY <1>3, <2>1, <2>2
  <1> QED BY <1>4, <1>5

(* The decrement is the moment at which the key is taken: what was read    *)
(* before is what waited first.                                            *)
LEMMA CountDownEffect ==
  ASSUME LineInv, CountDown
  PROVE  /\ LineInv' \/ Astray'
         /\ \/ hit'
            \/ /\ LineInv' /\ Waiting \in Seq(Byte)
               /\ Waiting # <<>> /\ Waiting' = Tail(Waiting) /\ pc' = "shift"
               /\ c' = Head(Waiting)
  <1>1. /\ kb_buf \in [Slots -> Byte] /\ last \in Slots /\ last \in Nat /\ i \in Slots
        /\ 0 \in Slots /\ KB_BUF_SIZE \in Nat \ {0} /\ first \in Byte /\ tested \in Slots
    BY KeyboardConstants, BufferHasASlot DEF LineInv, KbTypeOK, BufferTypeOK, GetKeyTypeOK, Byte
  <1>2. PICK n \in {last, tested} : last' = n - 1 /\ hit' = (hit \/ n # last \/ last = 0)
    BY DEF CountDown, Decremented
  <1>3. /\ reader = "shell" /\ pc = "count" /\ pc' = "shift" /\ i' = 0 /\ c' = first
        /\ first' = 0 /\ tested' = 0 /\ UNCHANGED <<kb_buf, kb_flags, reader>>
    BY DEF CountDown, Shell
  <1>4. BufferTypeOK' /\ GetKeyTypeOK' /\ FirstIsFirst'
    BY <1>1, <1>3 DEF LineInv, KbTypeOK, BufferTypeOK, GetKeyTypeOK, FirstIsFirst, Byte
  <1>5. n \in Slots
    BY <1>1, <1>2
  <1>6. CASE n = 0
    <2>1. last' = -1
      BY <1>2, <1>6
    <2>2. n # last \/ last = 0
      BY <1>6
    <2>3. hit'
      BY <1>2, <2>2, Zenon
    <2> QED BY <1>3, <1>4, <2>1, <2>3 DEF Astray
  <1>7. CASE n # 0
    <2>1. last' \in Slots
      BY <1>1, <1>2, <1>5, <1>7 DEF Slots
    <2>2. LineInv'
      BY <1>4, <2>1 DEF LineInv, KbTypeOK
    <2>3. ASSUME ~hit'
          PROVE  /\ Waiting \in Seq(Byte)
                 /\ Waiting # <<>> /\ Waiting' = Tail(Waiting)
                 /\ c' = Head(Waiting)
      <3>1. ~hit /\ last # 0 /\ last' = last - 1 /\ last - 1 \in Slots
        BY <1>2, <2>1, <2>3
      <3>2. /\ Waiting = Keys(kb_buf, last, "count", i)
            /\ Waiting' = Keys(kb_buf, last - 1, "shift", 0)
        BY <1>3, <3>1 DEF Waiting, Keys
      <3>3. /\ Waiting \in Seq(Byte) /\ Len(Waiting) = last
            /\ \A k \in 1 .. last : Waiting[k] = kb_buf[k - 1]
        BY <1>1, <3>2, KeysAreASequence
      <3>4. /\ Waiting' \in Seq(Byte) /\ Len(Waiting') = last - 1
            /\ \A k \in 1 .. last - 1 : Waiting'[k] = kb_buf[k]
        <4>1. \A k \in 1 .. last - 1 : k > 0
          OBVIOUS
        <4> QED BY <1>1, <3>1, <3>2, <4>1, KeysAreASequence
      <3>5. Waiting # <<>>
        BY <3>1, <3>3, EmptySeq
      <3>6. /\ Tail(Waiting) \in Seq(Byte) /\ Len(Tail(Waiting)) = last - 1
            /\ \A k \in 1 .. last - 1 : Tail(Waiting)[k] = Waiting[k + 1]
            /\ Head(Waiting) = Waiting[1]
        BY <3>3, <3>5, HeadTailProperties
      <3>7. \A k \in 1 .. last - 1 : Waiting'[k] = Tail(Waiting)[k]
        <4> SUFFICES ASSUME NEW k \in 1 .. last - 1 PROVE Waiting'[k] = Tail(Waiting)[k]
          OBVIOUS
        <4>1. k + 1 \in 1 .. last /\ (k + 1) - 1 = k
          BY <1>1
        <4>2. Waiting[k + 1] = kb_buf[k]
          BY <3>3, <4>1
        <4>3. Tail(Waiting)[k] = Waiting[k + 1] /\ Waiting'[k] = kb_buf[k]
          BY <3>4, <3>6
        <4> QED BY <4>2, <4>3
      <3>8. Waiting' = Tail(Waiting)
        BY <3>4, <3>6, <3>7, SeqEqual
      <3>9. c' = Head(Waiting)
        <4>1. first = kb_buf[0]
          BY <1>3, <3>1 DEF LineInv, FirstIsFirst
        <4>2. Waiting[1] = kb_buf[0]
          BY <1>1, <3>1, <3>3
        <4> QED BY <1>3, <3>6, <4>1, <4>2
      <3> QED BY <3>3, <3>5, <3>8, <3>9
    <2> QED BY <1>3, <2>2, <2>3
  <1> QED BY <1>6, <1>7

(* Moving the keys one by one, the loop leaves the same keys waiting.      *)
LEMMA ShiftInv ==
  ASSUME LineInv, Shift
  PROVE  LineInv' /\ UNCHANGED <<Waiting, c>>
  <1>1. /\ kb_buf \in [Slots -> Byte] /\ last \in Slots /\ last \in Nat /\ i \in Slots
        /\ KB_BUF_SIZE \in Nat \ {0}
    BY KeyboardConstants, BufferHasASlot DEF LineInv, KbTypeOK, BufferTypeOK, GetKeyTypeOK, Byte
  <1>2. /\ pc = "shift" /\ i < KB_BUF_SIZE - 1 /\ i' = i + 1
        /\ kb_buf' = [kb_buf EXCEPT ![i] = kb_buf[i + 1]]
        /\ UNCHANGED <<last, kb_flags, c, reader, pc, first, tested, hit>>
    BY DEF Shift, Shell
  <1>3. i \in Nat /\ i + 1 \in Slots /\ kb_buf' \in [Slots -> Byte]
    BY <1>1, <1>2 DEF Slots
  <1>4. LineInv'
    BY <1>1, <1>2, <1>3 DEF LineInv, KbTypeOK, BufferTypeOK, GetKeyTypeOK, FirstIsFirst, Byte
  <1>5. \A k \in 1 .. last :
          (IF pc = "shift" /\ k > i THEN kb_buf[k] ELSE kb_buf[k - 1]) =
          (IF pc = "shift" /\ k > i + 1 THEN kb_buf'[k] ELSE kb_buf'[k - 1])
    <2> SUFFICES ASSUME NEW k \in 1 .. last
                 PROVE  (IF k > i THEN kb_buf[k] ELSE kb_buf[k - 1]) =
                        (IF k > i + 1 THEN kb_buf'[k] ELSE kb_buf'[k - 1])
      BY <1>2
    <2>1. k \in Slots /\ k - 1 \in Slots /\ k \in Nat
      BY <1>1 DEF Slots
    <2>2. CASE k > i + 1
      BY <1>1, <1>2, <1>3, <2>1, <2>2
    <2>3. CASE k = i + 1
      BY <1>1, <1>2, <1>3, <2>1, <2>3
    <2>4. CASE k < i + 1
      <3>1. k - 1 # i /\ ~(k > i) /\ ~(k > i + 1)
        BY <1>3, <2>1, <2>4
      <3> QED BY <1>1, <1>2, <2>1, <3>1
    <2> QED BY <1>3, <2>1, <2>2, <2>3, <2>4
  <1>6. Keys(kb_buf, last, pc, i) = Keys(kb_buf', last, pc, i + 1)
    BY <1>1, <1>3, <1>5, SameKeys
  <1>7. Waiting' = Waiting
    <2>1. Waiting = Keys(kb_buf, last, pc, i) /\ Waiting' = Keys(kb_buf', last', pc', i')
      BY DEF Waiting, Keys
    <2> QED BY <1>2, <1>6, <2>1
  <1> QED BY <1>2, <1>4, <1>7

\* keyboard_get_key returns when every key has moved
LEMMA GetstrInv ==
  ASSUME LineInv, GetstrKey \/ GetstrEnd
  PROVE  LineInv' /\ UNCHANGED <<Waiting, c>>
  <1>1. /\ kb_buf \in [Slots -> Byte] /\ last \in Slots /\ last \in Nat /\ i \in Slots
        /\ KB_BUF_SIZE \in Nat \ {0}
    BY KeyboardConstants, BufferHasASlot DEF LineInv, KbTypeOK, BufferTypeOK, GetKeyTypeOK, Byte
  <1>2. /\ pc = "shift" /\ i = KB_BUF_SIZE - 1 /\ pc' = "out"
        /\ UNCHANGED <<kb_buf, last, kb_flags, c, reader, i, first, tested>>
    BY DEF GetstrKey, GetstrEnd, Returns, Shell, kbVars
  <1>3. LineInv'
    BY <1>2 DEF LineInv, KbTypeOK, BufferTypeOK, GetKeyTypeOK, FirstIsFirst
  <1>4. \A k \in 1 .. last : ~(k > i)
    BY <1>1, <1>2 DEF Slots
  <1>5. Waiting' = Waiting
    BY <1>2, <1>4 DEF Waiting
  <1> QED BY <1>2, <1>3, <1>5

LEMMA LineStepInv ==
  LineInv /\ [LineNext]_lineVars =>
    (LineInv \/ Astray)' /\ [KQ!QueueNext \/ hit']_<<Waiting, c>>
  <1> SUFFICES ASSUME LineInv, [LineNext]_lineVars
               PROVE  /\ LineInv' \/ Astray'
                      /\ KQ!QueueNext \/ hit' \/ UNCHANGED <<Waiting, c>>
    OBVIOUS
  <1>1. CASE ProcessReads
    BY <1>1, ProcessInv
  <1>2. CASE Irq1
    BY <1>2, Irq1Inv
  <1>3. CASE ReadFirst
    BY <1>3, ReadFirstInv
  <1>4. CASE TestLast
    BY <1>4, TestLastEffect DEF KQ!QueueNext, KQ!GetNothing
  <1>5. CASE CountDown
    BY <1>5, CountDownEffect DEF KQ!QueueNext, KQ!Get
  <1>6. CASE Shift
    BY <1>6, ShiftInv
  <1>7. CASE GetstrKey \/ GetstrEnd
    BY <1>7, GetstrInv
  <1>8. CASE UNCHANGED lineVars
    <2>1. LineInv'
      BY <1>8 DEF LineInv, KbTypeOK, BufferTypeOK, GetKeyTypeOK, FirstIsFirst, lineVars, kbVars, getchVars
    <2>2. UNCHANGED <<Waiting, c>>
      BY <1>8 DEF Waiting, lineVars, kbVars, getchVars
    <2> QED BY <2>1, <2>2
  <1> QED BY <1>1, <1>2, <1>3, <1>4, <1>5, <1>6, <1>7, <1>8 DEF LineNext, ShellReads

\* the model has stopped
LEMMA AstrayStays ==
  Astray /\ [LineNext]_lineVars => UNCHANGED lineVars /\ Astray'
  <1> SUFFICES ASSUME Astray, [LineNext]_lineVars PROVE UNCHANGED lineVars /\ Astray'
    OBVIOUS
  <1>1. ~Shell("out") /\ ~Shell("test") /\ ~Shell("count") /\ ~Shell("shift") /\ ~Shell(pc)
    BY DEF Shell, Astray
  <1>2. ~LineNext
    BY <1>1 DEF Astray, LineNext, ProcessReads, ShellReads, Irq1, ReadFirst, TestLast, CountDown,
                Shift, GetstrKey, GetstrEnd, Returns
  <1>3. UNCHANGED lineVars
    BY <1>2
  <1>4. Astray'
    BY <1>3 DEF Astray, BufferTypeOK, GetKeyTypeOK, lineVars, kbVars, getchVars
  <1> QED BY <1>3, <1>4

LEMMA LineInvariant == LineSpec => [](LineInv \/ Astray)
  BY LineInitInv, LineStepInv, AstrayStays, PTL DEF LineSpec

(* No write of either handler, and none of the shell's loop, leaves the    *)
(* buffer, and the counter stays below its size; below 0 it falls only     *)
(* when an overflow has come between its test and its decrement            *)
(* (keyboard.c:110-126).                                                   *)
THEOREM KeyboardTypeCorrect == LineSpec => []LineTypeOK
  <1>1. LineInv \/ Astray => LineTypeOK
    BY DEF LineInv, Astray, LineTypeOK, KbTypeOK, GetKeyTypeOK, Byte
  <1> QED BY <1>1, LineInvariant, PTL

(* The buffer, its counter and its shifting are a queue of keys, for the   *)
(* process and for the shell, wherever IRQ1 comes, except when it comes    *)
(* between the accesses that ghost hit marks (keyboard.c:116-121).         *)
THEOREM LineImplementsKeyQueue == LineSpec => ImplementsKeyQueue
  <1>1. LineInit => KQ!QueueInit
    <2> SUFFICES ASSUME LineInit PROVE Waiting = <<>> /\ c = 0
      BY DEF KQ!QueueInit
    <2>1. last = 0 /\ c = 0 /\ LineInv
      BY LineInitInv DEF LineInit, KbInit
    <2>2. Waiting = Keys(kb_buf, last, pc, i)
      BY DEF Waiting, Keys
    <2>3. kb_buf \in [Slots -> Byte] /\ last \in Slots /\ i \in Slots
      BY <2>1 DEF LineInv, KbTypeOK, BufferTypeOK, GetKeyTypeOK, Byte
    <2>4. Waiting \in Seq(Byte) /\ Len(Waiting) = last
      BY <2>2, <2>3, KeysAreASequence
    <2> QED BY <2>1, <2>4, EmptySeq
  <1>2. Astray /\ [LineNext]_lineVars => [KQ!QueueNext \/ hit']_<<Waiting, c>>
    BY AstrayStays DEF Waiting, lineVars, kbVars, getchVars
  <1> QED BY <1>1, <1>2, LineInvariant, LineStepInv, PTL DEF LineSpec, ImplementsKeyQueue

-----------------------------------------------------------------------------
(* What holds of 0 and goes from each number to the next holds of all: or  *)
(* there would be a least one of which it does not.                        *)
LEMMA Induction ==
  ASSUME NEW S, 0 \in S, \A n \in Nat : n \in S => n + 1 \in S
  PROVE  Nat \subseteq S
  <1> SUFFICES ASSUME Nat \ S # {} PROVE FALSE
    OBVIOUS
  <1>1. IsWellFoundedOn(OpToRel(<, Nat), Nat)
    BY NatLessThanWellFounded
  <1>2. PICK x \in Nat \ S : \A y \in Nat \ S : ~ (<<y, x>> \in OpToRel(<, Nat))
    BY <1>1, WFMin
  <1>3. \A y \in Nat \ S : ~ (y < x)
    BY <1>2 DEF OpToRel
  <1>4. x # 0 /\ x - 1 \in Nat /\ x - 1 < x /\ x = (x - 1) + 1
    OBVIOUS
  <1>5. x - 1 \in S
    BY <1>3, <1>4
  <1> QED BY <1>4, <1>5

\* f is the line after each number of keys, up to n
IsLineOf(f, keys, n) ==
  f = [m \in 0 .. n |-> IF m = 0 THEN <<>> ELSE Edit(f[m - 1], keys[m])]

LEMMA LineExists ==
  ASSUME NEW keys, NEW n \in Nat
  PROVE  \E f : IsLineOf(f, keys, n)
  <1> DEFINE S == {k \in Nat : \E f : IsLineOf(f, keys, k)}
  <1>1. 0 \in S
    <2> DEFINE f == [m \in 0 .. 0 |-> <<>>]
    <2>1. IsLineOf(f, keys, 0)
      BY DEF IsLineOf
    <2> QED BY <2>1
  <1>2. ASSUME NEW k \in Nat, k \in S PROVE k + 1 \in S
    <2>1. PICK f : IsLineOf(f, keys, k)
      BY <1>2
    <2> DEFINE g == [m \in 0 .. k + 1 |-> IF m = k + 1 THEN Edit(f[k], keys[k + 1]) ELSE f[m]]
    <2>2. ASSUME NEW m \in 0 .. k + 1
          PROVE  g[m] = IF m = 0 THEN <<>> ELSE Edit(g[m - 1], keys[m])
      <3>1. CASE m = k + 1
        BY <3>1
      <3>2. CASE m # k + 1
        <4>1. m \in 0 .. k /\ g[m] = f[m] /\ (m # 0 => g[m - 1] = f[m - 1])
          BY <3>2
        <4>2. f[m] = IF m = 0 THEN <<>> ELSE Edit(f[m - 1], keys[m])
          BY <2>1, <4>1 DEF IsLineOf
        <4> QED BY <4>1, <4>2
      <3> QED BY <3>1, <3>2
    <2>3. IsLineOf(g, keys, k + 1)
      BY <2>2 DEF IsLineOf
    <2> QED BY <2>3
  <1> HIDE DEF S
  <1>3. Nat \subseteq S
    BY <1>1, <1>2, Induction
  <1> QED BY <1>3 DEF S

\* keys that begin alike make lines that begin alike
LEMMA LineIsUnique ==
  ASSUME NEW keys, NEW more, NEW n \in Nat, NEW k \in Nat, n <= k,
         \A m \in 1 .. n : keys[m] = more[m],
         NEW f, IsLineOf(f, keys, n), NEW g, IsLineOf(g, more, k)
  PROVE  f[n] = g[n]
  <1> DEFINE S == {m \in Nat : m <= n => f[m] = g[m]}
  <1>1. 0 \in S
    BY DEF IsLineOf
  <1>2. ASSUME NEW m \in Nat, m \in S PROVE m + 1 \in S
    <2> SUFFICES ASSUME m + 1 <= n PROVE f[m + 1] = g[m + 1]
      OBVIOUS
    <2>1. f[m] = g[m] /\ keys[m + 1] = more[m + 1]
      BY <1>2
    <2>2. f[m + 1] = Edit(f[m], keys[m + 1])
      BY DEF IsLineOf
    <2>3. g[m + 1] = Edit(g[m], more[m + 1])
      BY DEF IsLineOf
    <2> QED BY <2>1, <2>2, <2>3
  <1> HIDE DEF S
  <1>3. n \in S
    BY <1>1, <1>2, Induction
  <1> QED BY <1>3 DEF S

LEMMA EditedIsALine ==
  ASSUME NEW keys \in Seq(Byte)
  PROVE  \E f : IsLineOf(f, keys, Len(keys)) /\ Edited(keys) = f[Len(keys)]
  <1> DEFINE f == CHOOSE g : g = [m \in 0 .. Len(keys) |->
                                    IF m = 0 THEN <<>> ELSE Edit(g[m - 1], keys[m])]
  <1>1. Edited(keys) = f[Len(keys)]
    BY DEF Edited
  <1>2. \E g : g = [m \in 0 .. Len(keys) |-> IF m = 0 THEN <<>> ELSE Edit(g[m - 1], keys[m])]
    BY LineExists, LenProperties DEF IsLineOf
  <1>3. f = [m \in 0 .. Len(keys) |-> IF m = 0 THEN <<>> ELSE Edit(f[m - 1], keys[m])]
    BY <1>2
  <1> QED BY <1>1, <1>3 DEF IsLineOf

(* The two equations by which a line is edited key by key.                 *)
LEMMA EditedEquations ==
  /\ Edited(<<>>) = <<>>
  /\ \A keys \in Seq(Byte), k \in Byte :
       Edited(Append(keys, k)) = Edit(Edited(keys), k)
  <1>1. Edited(<<>>) = <<>>
    <2>1. PICK f : IsLineOf(f, <<>>, 0) /\ Edited(<<>>) = f[0]
      BY EditedIsALine, EmptySeq
    <2> QED BY <2>1 DEF IsLineOf
  <1>2. ASSUME NEW keys \in Seq(Byte), NEW k \in Byte
        PROVE  Edited(Append(keys, k)) = Edit(Edited(keys), k)
    <2> DEFINE n == Len(keys)
               more == Append(keys, k)
    <2>1. /\ more \in Seq(Byte) /\ Len(more) = n + 1 /\ n \in Nat
          /\ \A m \in 1 .. n : keys[m] = more[m]
          /\ more[n + 1] = k
      BY AppendProperties, LenProperties
    <2>2. PICK f : IsLineOf(f, keys, n) /\ Edited(keys) = f[n]
      BY EditedIsALine
    <2>3. PICK g : IsLineOf(g, more, n + 1) /\ Edited(more) = g[n + 1]
      BY <2>1, EditedIsALine
    <2> HIDE DEF n, more
    <2>4. f[n] = g[n]
      <3>1. n + 1 \in Nat /\ n <= n + 1
        BY <2>1
      <3> QED BY <2>1, <2>2, <2>3, <3>1, LineIsUnique, SMTT(20)
    <2>5. g[n + 1] = Edit(g[n], more[n + 1])
      BY <2>1, <2>3 DEF IsLineOf
    <2> QED BY <2>1, <2>2, <2>3, <2>4, <2>5 DEF more
  <1> QED BY <1>1, <1>2

-----------------------------------------------------------------------------
(* What has been typed is what getstr has seen, the key it is about to get *)
(* and the keys that wait.  No key was hit since the line began.           *)
Accounted(done) ==
  /\ typed = done \o (InFlight \o Waiting)
  /\ Edited(done) = str

TypedInv ==
  /\ typed \in Seq(Byte)
  /\ clean => ~hit
  /\ reader = "shell" /\ clean => \E done \in Seq(Byte) : Accounted(done)

LEMMA WaitingIsASequence ==
  ASSUME LineInv
  PROVE  /\ Waiting \in Seq(Byte) /\ Len(Waiting) = last /\ last \in Nat
         /\ InFlight \in Seq(Byte)
         /\ InFlight = IF pc = "shift" THEN <<c>> ELSE <<>>
  <1>1. kb_buf \in [Slots -> Byte] /\ last \in Slots /\ i \in Slots /\ c \in Byte
    BY DEF LineInv, KbTypeOK, BufferTypeOK, GetKeyTypeOK, Byte
  <1>2. Waiting = Keys(kb_buf, last, pc, i)
    BY DEF Waiting, Keys
  <1> QED BY <1>1, <1>2, KeysAreASequence, BufferHasASlot DEF InFlight

\* taking the first part off, and moving the first key of a part
LEMMA Parts ==
  ASSUME NEW d \in Seq(Byte), NEW w \in Seq(Byte)
  PROVE  /\ d \o w \in Seq(Byte) /\ Len(d) \in 0 .. Len(d \o w)
         /\ SubSeq(d \o w, 1, Len(d)) = d
         /\ SubSeq(d \o w, Len(d) + 1, Len(d \o w)) = w
         /\ <<>> \o w = w /\ d \o <<>> = d
  <1>1. /\ d \o w \in Seq(Byte) /\ Len(d) \in Nat /\ Len(w) \in Nat
        /\ Len(d \o w) = Len(d) + Len(w)
        /\ \A k \in 1 .. Len(d) + Len(w) : (d \o w)[k] =
             IF k <= Len(d) THEN d[k] ELSE w[k - Len(d)]
    BY ConcatProperties, LenProperties
  <1>2. \A k \in 1 .. Len(d \o w) : (d \o w)[k] \in Byte
    BY <1>1, ElementOfSeq
  <1>3. SubSeq(d \o w, 1, Len(d)) = d
    <2> DEFINE a == SubSeq(d \o w, 1, Len(d))
    <2>1. a \in Seq(Byte) /\ Len(a) = Len(d) /\ \A k \in 1 .. Len(d) : a[k] = (d \o w)[k]
      BY <1>1, <1>2, SubSeqProperties
    <2> HIDE DEF a
    <2> QED BY <1>1, <2>1, SeqEqual DEF a
  <1>4. SubSeq(d \o w, Len(d) + 1, Len(d \o w)) = w
    <2> DEFINE n == Len(d)
               a == SubSeq(d \o w, n + 1, n + Len(w))
    <2>1. /\ a \in Seq(Byte) /\ Len(a) = Len(w)
          /\ \A k \in 1 .. Len(w) : a[k] = (d \o w)[n + k]
      BY <1>1, <1>2, SubSeqProperties
    <2>2. \A k \in 1 .. Len(w) : a[k] = w[k]
      BY <1>1, <2>1
    <2> HIDE DEF a
    <2> QED BY <1>1, <2>1, <2>2, SeqEqual DEF a
  <1> QED BY <1>1, <1>3, <1>4, ConcatEmptySeq

LEMMA KeyMovesOn ==
  ASSUME NEW d \in Seq(Byte), NEW w \in Seq(Byte), NEW k \in Byte
  PROVE  /\ Append(d, k) \in Seq(Byte)
         /\ d \o (<<k>> \o w) = Append(d, k) \o w
         /\ w # <<>> => w = <<Head(w)>> \o Tail(w)
         /\ Append(d \o w, k) = d \o Append(w, k)
  <1>1. <<k>> \in Seq(Byte)
    OBVIOUS
  <1>2. Append(d, k) = d \o <<k>> /\ Append(d, k) \in Seq(Byte)
    BY AppendIsConcat, AppendProperties
  <1>3. (d \o <<k>>) \o w = d \o (<<k>> \o w)
    BY <1>1, ConcatAssociative
  <1>4. ASSUME w # <<>> PROVE w = <<Head(w)>> \o Tail(w)
    <2>1. /\ Head(w) \in Byte /\ Tail(w) \in Seq(Byte) /\ Head(w) = w[1]
          /\ Len(Tail(w)) = Len(w) - 1 /\ Len(w) \in Nat \ {0}
          /\ \A j \in 1 .. Len(Tail(w)) : Tail(w)[j] = w[j + 1]
      BY <1>4, HeadTailProperties, EmptySeq
    <2>2. <<Head(w)>> \in Seq(Byte) /\ Len(<<Head(w)>>) = 1 /\ <<Head(w)>>[1] = w[1]
      BY <2>1
    <2> DEFINE t == Tail(w)
               h == <<Head(w)>>
    <2>3. /\ h \o t \in Seq(Byte) /\ Len(h \o t) = Len(w)
          /\ \A j \in 1 .. Len(w) : (h \o t)[j] = IF j <= 1 THEN h[j] ELSE t[j - 1]
      <3> HIDE DEF t, h
      <3>1. h \in Seq(Byte) /\ t \in Seq(Byte) /\ Len(h) = 1 /\ Len(t) = Len(w) - 1
        BY <2>1, <2>2 DEF h, t
      <3>2. /\ h \o t \in Seq(Byte) /\ Len(h \o t) = Len(h) + Len(t)
            /\ \A j \in 1 .. Len(h) + Len(t) : (h \o t)[j] =
                 IF j <= Len(h) THEN h[j] ELSE t[j - Len(h)]
        BY <3>1, ConcatProperties
      <3>3. Len(h) + Len(t) = Len(w)
        BY <2>1, <3>1
      <3> QED BY <3>1, <3>2, <3>3
    <2>4. \A j \in 1 .. Len(w) : (h \o t)[j] = w[j]
      BY <2>1, <2>2, <2>3
    <2> HIDE DEF t, h
    <2>5. h \o t = w
      BY <2>3, <2>4, SeqEqual
    <2> QED BY <2>5 DEF h, t
  <1>5. Append(d \o w, k) = d \o Append(w, k)
    <2>1. d \o w \in Seq(Byte) /\ Append(w, k) = w \o <<k>>
      BY ConcatProperties, AppendIsConcat
    <2>2. Append(d \o w, k) = (d \o w) \o <<k>>
      BY <2>1, AppendIsConcat
    <2> QED BY <1>1, <2>1, <2>2, ConcatAssociative
  <1> QED BY <1>2, <1>3, <1>4, <1>5

LEMMA TypedInitInv == LineInit => TypedInv
  <1> SUFFICES ASSUME LineInit PROVE TypedInv
    OBVIOUS
  <1>1. /\ typed = <<>> /\ str = <<>> /\ ~hit /\ InFlight = <<>> /\ LineInv
        /\ last = 0
    BY LineInitInv DEF LineInit, KbInit, InFlight
  <1>2. Waiting = <<>>
    BY <1>1, WaitingIsASequence, EmptySeq
  <1>3. Accounted(<<>>)
    BY <1>1, <1>2, EditedEquations DEF Accounted
  <1>4. <<>> \in Seq(Byte)
    OBVIOUS
  <1>5. typed \in Seq(Byte) /\ (clean => ~hit)
    BY <1>1, <1>4
  <1> HIDE DEF Accounted
  <1> QED BY <1>3, <1>4, <1>5 DEF TypedInv

\* the keys that wait and the one under way are as they were
LEMMA SameAccount ==
  ASSUME TypedInv, UNCHANGED <<reader, typed, clean, str>>, clean' => ~hit',
         clean => UNCHANGED <<InFlight, Waiting>>
  PROVE  TypedInv'
  <1>1. ASSUME clean', reader' = "shell"
        PROVE  \E done \in Seq(Byte) : Accounted(done)'
    <2>1. PICK done \in Seq(Byte) : Accounted(done)
      BY <1>1 DEF TypedInv
    <2> QED BY <1>1, <2>1 DEF Accounted
  <1> QED BY <1>1 DEF TypedInv

(* IRQ1, while the line is clean: a key that arrives waits behind the      *)
(* others, any other code changes nothing that is read.                    *)
LEMMA Irq1Typed ==
  ASSUME LineInv, TypedInv, Irq1
  PROVE  TypedInv'
  <1>1. PICK code \in ScanCodes :
          /\ keyboard_handler(code)
          /\ clean' = (clean /\ ~Hits /\ (Arrives(code) => Len(Waiting) + 1 < KB_BUF_SIZE))
          /\ typed' = IF ~clean' THEN <<>>
                      ELSE IF Arrives(code) THEN Append(typed, Char(code)) ELSE typed
    BY KeyboardConstants DEF Irq1
  <1>2. UNCHANGED <<reader, pc, i, str>> /\ hit' = (hit \/ Hits) /\ reader = "shell"
    BY DEF Irq1, Shell
  <1>3. CASE ~clean'
    BY <1>1, <1>3 DEF TypedInv
  <1>4. CASE clean'
    <2>1. clean /\ ~Hits /\ ~hit'
      BY <1>1, <1>2, <1>4 DEF TypedInv
    <2>2. KbTypeOK' /\ c' = c
      BY <1>1, HandlerEffect DEF LineInv
    <2>3. InFlight' = InFlight
      BY <1>2, <2>2 DEF InFlight
    <2>4. CASE ~Arrives(code)
      <3>1. ~CharacterKey(code)
        BY <2>4, KeyboardConstants DEF CharacterKey, Arrives, Ignored, Byte
      <3>2. UNCHANGED <<kb_buf, last>>
        BY <1>1, <3>1 DEF keyboard_handler, IgnoredKey, ModifierKey, SilencedKey, kbVars
      <3>3. Waiting' = Waiting
        BY <1>2, <3>2 DEF Waiting
      <3> QED BY <1>1, <1>2, <1>4, <2>1, <2>3, <2>4, <3>3, SameAccount
    <2>5. CASE Arrives(code)
      <3>0. code \in 0 .. 57 /\ KB_BUF_SIZE \in Nat
        BY <2>5, KeyboardConstants DEF Arrives
      <3>1. CharacterKey(code)
        <4>1. ~IgnoredKey(code)
          BY <3>0 DEF IgnoredKey, Ignored
        <4>2. ~ModifierKey(code)
          <5>1. code % 128 = code
            BY <3>0
          <5> QED BY <2>5, <5>1 DEF ModifierKey, Arrives
        <4>3. ~SilencedKey(code)
          BY <2>5 DEF SilencedKey, Arrives
        <4> QED BY <1>1, <4>1, <4>2, <4>3 DEF keyboard_handler
      <3>2. Char(code) \in Byte
        <4>1. code \in 0 .. 127
          BY <3>0
        <4> QED BY <4>1, KeysAreBytes DEF Char
      <3> DEFINE ch == Char(code)
      <3>3. /\ Waiting \in Seq(Byte) /\ Len(Waiting) = last /\ last \in Nat
            /\ InFlight \in Seq(Byte)
        BY WaitingIsASequence
      <3>4. last + 1 < KB_BUF_SIZE
        BY <1>1, <1>4, <2>5, <3>3
      <3>5. kb_buf' = [kb_buf EXCEPT ![last] = ch] /\ last' = last + 1
        BY <3>0, <3>1, <3>3, <3>4 DEF CharacterKey, Counted
      <3>6. Waiting' = Append(Waiting, ch)
        BY <1>2, <2>1, <2>2, <3>2, <3>4, <3>5, StoredIsAppended
      <3>7. typed' = Append(typed, ch)
        BY <1>1, <1>4, <2>5
      <3> HIDE DEF ch
      <3>8. PICK done \in Seq(Byte) : Accounted(done)
        BY <1>2, <2>1 DEF TypedInv
      <3>9. typed' = done \o (InFlight' \o Waiting')
        <4>1. InFlight \o Waiting \in Seq(Byte) /\ ch \in Byte
          BY <3>2, <3>3, Parts DEF ch
        <4>2. typed' = done \o Append(InFlight \o Waiting, ch)
          BY <3>7, <3>8, <4>1, KeyMovesOn DEF Accounted
        <4>3. Append(InFlight \o Waiting, ch) = InFlight \o Append(Waiting, ch)
          BY <3>3, <4>1, KeyMovesOn
        <4> QED BY <2>3, <3>6, <4>2, <4>3
      <3>10. Accounted(done)'
        BY <1>2, <3>8, <3>9 DEF Accounted
      <3>11. typed' \in Seq(Byte)
        <4>1. typed \in Seq(Byte) /\ ch \in Byte
          BY <3>2 DEF TypedInv, ch
        <4> QED BY <3>7, <4>1, AppendProperties
      <3> QED BY <2>1, <3>10, <3>11 DEF TypedInv
    <2> QED BY <2>4, <2>5
  <1> QED BY <1>3, <1>4

(* An empty buffer leaves the account as it is; so does the test of any    *)
(* other.                                                                  *)
LEMMA TestLastTyped ==
  ASSUME LineInv, TypedInv, TestLast
  PROVE  TypedInv'
  <1>1. UNCHANGED <<reader, typed, clean, str, hit>> /\ pc = "test"
    BY DEF TestLast, Shell
  <1>2. InFlight = <<>> /\ InFlight' = <<>>
    BY <1>1, TestLastEffect DEF InFlight
  <1>3. clean' => ~hit'
    BY <1>1 DEF TypedInv
  <1> QED BY <1>1, <1>2, <1>3, TestLastEffect, SameAccount

(* The key that is taken is the one that waited first.                     *)
LEMMA CountDownTyped ==
  ASSUME LineInv, TypedInv, CountDown
  PROVE  TypedInv'
  <1>1. /\ UNCHANGED <<reader, str>> /\ pc = "count" /\ clean' = (clean /\ ~hit')
        /\ typed' = IF clean' THEN typed ELSE <<>>
    BY DEF CountDown, Shell
  <1>2. InFlight = <<>>
    BY <1>1 DEF InFlight
  <1>3. CASE ~clean'
    <2>1. typed' = <<>> /\ <<>> \in Seq(Byte)
      BY <1>1, <1>3
    <2> QED BY <1>3, <2>1 DEF TypedInv
  <1>4. CASE clean'
    <2>1. clean /\ ~hit' /\ typed' = typed
      BY <1>1, <1>4
    <2>2. /\ Waiting \in Seq(Byte) /\ Waiting # <<>> /\ Waiting' = Tail(Waiting)
          /\ pc' = "shift" /\ c' = Head(Waiting)
      BY <2>1, CountDownEffect
    <2>3. InFlight' = <<Head(Waiting)>>
      BY <2>2 DEF InFlight
    <2>4. InFlight' \o Waiting' = InFlight \o Waiting
      BY <1>2, <2>2, <2>3, KeyMovesOn, Parts
    <2>5. ASSUME reader' = "shell" PROVE \E done \in Seq(Byte) : Accounted(done)'
      <3>1. PICK done \in Seq(Byte) : Accounted(done)
        BY <1>1, <2>1, <2>5 DEF TypedInv
      <3> QED BY <1>1, <2>1, <2>4, <3>1 DEF Accounted
    <2> QED BY <2>1, <2>5 DEF TypedInv
  <1> QED BY <1>3, <1>4

(* getstr edits the line by the key it gets; an enter that ends the line   *)
(* leaves what waits to the next one.                                      *)
LEMMA GetstrTyped ==
  ASSUME LineInv, TypedInv, GetstrKey \/ GetstrEnd
  PROVE  TypedInv'
  <1>1. /\ UNCHANGED <<reader, c>> /\ ~hit' /\ pc = "shift" /\ pc' = "out"
    BY DEF GetstrKey, GetstrEnd, Returns, Shell, kbVars
  <1>2. Waiting' = Waiting
    BY GetstrInv
  <1>3. /\ InFlight = <<c>> /\ InFlight' = <<>> /\ Waiting \in Seq(Byte) /\ c \in Byte
        /\ typed \in Seq(Byte)
    BY <1>1, WaitingIsASequence DEF InFlight, LineInv, KbTypeOK, BufferTypeOK, Byte, TypedInv
  <1>4. ASSUME UNCHANGED <<typed, clean>>, str' = Edit(str, c)
        PROVE  TypedInv'
    <2>1. ASSUME reader' = "shell", clean'
          PROVE  \E done \in Seq(Byte) : Accounted(done)'
      <3>1. PICK done \in Seq(Byte) : Accounted(done)
        BY <1>1, <1>4, <2>1 DEF TypedInv
      <3>2. Append(done, c) \in Seq(Byte)
        BY <1>3, KeyMovesOn
      <3>3. done \o (<<c>> \o Waiting) = Append(done, c) \o Waiting
        BY <1>3, KeyMovesOn
      <3>4. <<>> \o Waiting = Waiting
        BY <1>3, Parts
      <3>5. typed' = Append(done, c) \o (InFlight' \o Waiting')
        BY <1>2, <1>3, <1>4, <3>1, <3>3, <3>4 DEF Accounted
      <3>6. Edited(Append(done, c)) = Edit(Edited(done), c)
        BY <1>3, EditedEquations
      <3>7. PICK more : more = Append(done, c)
        OBVIOUS
      <3>8. Accounted(more)'
        BY <1>4, <3>1, <3>5, <3>6, <3>7 DEF Accounted
      <3> QED BY <3>2, <3>7, <3>8
    <2> QED BY <1>1, <1>3, <1>4, <2>1 DEF TypedInv
  <1>5. CASE GetstrKey
    <2>1. str' = CASE c = 0         -> str
                   [] c = Backspace -> Erased(str)
                   [] OTHER         -> Append(str, c)
      BY <1>5 DEF GetstrKey
    <2>2. c # Enter /\ UNCHANGED <<typed, clean>>
      BY <1>5 DEF GetstrKey
    <2>3. str' = Edit(str, c)
      BY <2>1, <2>2 DEF Edit, Erased, Enter, Backspace
    <2> QED BY <1>4, <2>2, <2>3
  <1>6. CASE GetstrEnd /\ smashed'
    <2>1. c = Enter /\ UNCHANGED <<str, typed, clean>>
      BY <1>6 DEF GetstrEnd
    <2>2. str' = Edit(str, c)
      BY <2>1 DEF Edit, Enter, Backspace
    <2> QED BY <1>4, <2>1, <2>2
  <1>7. CASE GetstrEnd /\ ~smashed'
    <2>1. str' = <<>> /\ typed' = Waiting
      BY <1>7 DEF GetstrEnd
    <2>2. typed' = <<>> \o (InFlight' \o Waiting')
      BY <1>2, <1>3, <2>1, Parts
    <2>3. Accounted(<<>>)'
      BY <2>1, <2>2, EditedEquations DEF Accounted
    <2>4. <<>> \in Seq(Byte)
      OBVIOUS
    <2> QED BY <1>1, <1>3, <2>1, <2>3, <2>4 DEF TypedInv
  <1> QED BY <1>5, <1>6, <1>7

LEMMA TypedStepInv ==
  LineInv /\ TypedInv /\ [LineNext]_lineVars => TypedInv'
  <1> SUFFICES ASSUME LineInv, TypedInv, [LineNext]_lineVars PROVE TypedInv'
    OBVIOUS
  <1>1. CASE ProcessReads
    <2>1. reader = "process" /\ UNCHANGED <<reader, typed, clean, hit>>
      BY <1>1 DEF ProcessReads, getchVars
    <2> QED BY <2>1 DEF TypedInv
  <1>2. CASE Irq1
    BY <1>2, Irq1Typed
  <1>3. CASE ReadFirst
    <2>1. /\ UNCHANGED <<reader, typed, clean, str, c>> /\ ~hit'
          /\ pc # "shift" /\ pc' # "shift"
      BY <1>3 DEF ReadFirst, Shell, kbVars
    <2>2. InFlight' = InFlight
      BY <2>1 DEF InFlight
    <2> QED BY <1>3, <2>1, <2>2, ReadFirstInv, SameAccount
  <1>4. CASE TestLast
    BY <1>4, TestLastTyped
  <1>8. CASE CountDown
    BY <1>8, CountDownTyped
  <1>5. CASE Shift
    <2>1. UNCHANGED <<reader, typed, clean, str, c, pc, hit>>
      BY <1>5 DEF Shift
    <2>2. InFlight' = InFlight
      BY <2>1 DEF InFlight
    <2>3. clean' => ~hit'
      BY <2>1 DEF TypedInv
    <2> QED BY <1>5, <2>1, <2>2, <2>3, ShiftInv, SameAccount
  <1>6. CASE GetstrKey \/ GetstrEnd
    BY <1>6, GetstrTyped
  <1>7. CASE UNCHANGED lineVars
    <2>1. UNCHANGED <<reader, typed, clean, str, hit>> /\ UNCHANGED <<InFlight, Waiting>>
      BY <1>7 DEF lineVars, kbVars, getchVars, InFlight, Waiting
    <2>2. clean' => ~hit'
      BY <2>1 DEF TypedInv
    <2> QED BY <2>1, <2>2, SameAccount
  <1> QED BY <1>1, <1>2, <1>3, <1>4, <1>5, <1>6, <1>7, <1>8 DEF LineNext, ShellReads

LEMMA TypedIsLine ==
  LineInv /\ TypedInv => LineIsWhatWasTyped
  <1> SUFFICES ASSUME LineInv, TypedInv, reader = "shell", clean
               PROVE  \E n \in 0 .. Len(typed) :
                        /\ SubSeq(typed, n + 1, Len(typed)) = InFlight \o Waiting
                        /\ Edited(SubSeq(typed, 1, n)) = str
    BY DEF LineIsWhatWasTyped
  <1>1. PICK done \in Seq(Byte) : Accounted(done)
    BY DEF TypedInv
  <1>2. InFlight \o Waiting \in Seq(Byte)
    BY WaitingIsASequence, Parts
  <1>3. /\ Len(done) \in 0 .. Len(typed)
        /\ SubSeq(typed, 1, Len(done)) = done
        /\ SubSeq(typed, Len(done) + 1, Len(typed)) = InFlight \o Waiting
    BY <1>1, <1>2, Parts DEF Accounted
  <1> QED BY <1>1, <1>3 DEF Accounted

(* What getstr has stored is what was typed since the last line, edited,   *)
(* and what it has not seen waits: for every table of keys, every size of  *)
(* the buffer and every line, while IRQ1 comes at any access but those     *)
(* that are hit (keyboard.c:110-126, get.c:19-48).                         *)
THEOREM ShellGetsWhatWasTyped == LineSpec => []LineIsWhatWasTyped
  <1>1. LineInit => LineInv /\ TypedInv
    BY LineInitInv, TypedInitInv
  <1>2. LineInv /\ TypedInv /\ [LineNext]_lineVars => (LineInv \/ Astray)' /\ TypedInv'
    BY LineStepInv, TypedStepInv
  <1>3. Astray /\ TypedInv /\ [LineNext]_lineVars => Astray' /\ TypedInv'
    <2> SUFFICES ASSUME Astray, TypedInv, [LineNext]_lineVars PROVE Astray' /\ TypedInv'
      OBVIOUS
    <2>1. Astray' /\ UNCHANGED <<typed, clean, hit>> /\ hit
      BY AstrayStays DEF Astray, lineVars, getchVars
    <2> QED BY <2>1 DEF TypedInv
  <1>4. (LineInv \/ Astray) /\ TypedInv => LineIsWhatWasTyped
    BY TypedIsLine DEF Astray, TypedInv, LineIsWhatWasTyped
  <1> QED BY <1>1, <1>2, <1>3, <1>4, PTL DEF LineSpec
=============================================================================
