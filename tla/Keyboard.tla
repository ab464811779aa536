------------------------------ MODULE Keyboard ------------------------------
(***************************************************************************)
(* The keyboard driver, kernel/arch/i386/io/keyboard.c, with a user        *)
(* process that reads through system call 3 (sys/syscall.c).  The gates of *)
(* IRQ1 and of interrupt 0x70 disable interrupts (cpu/idt.c), so both      *)
(* handlers run as one step.  No hook is ever added (add_key_hook has no   *)
(* caller), so scan_key_hooks does nothing; nobody reads the byte that     *)
(* read_kb_buf leaves in stdin.  As every code beyond 57 is ignored, no    *)
(* modifier is ever released, and CTRL silences the keyboard for good.     *)
(***************************************************************************)
EXTENDS Naturals, FiniteSets, Sequences

CONSTANTS
  KB_BUF_SIZE,
  ScanCodes,           \* what port 0x60 may hold: a key, plus 128 when it is released
  kbdus, kbdusShift    \* the tables: what a key stands for

ASSUME KeyboardAssumption ==
  /\ KB_BUF_SIZE \in Nat \ {0}
  /\ ScanCodes \subseteq 0 .. 255
  /\ kbdus \in [0 .. 127 -> 0 .. 255]
  /\ kbdusShift \in [0 .. 127 -> 0 .. 255]

VARIABLES
  kb_buf, last,        \* the buffer, and how many keys wait in it
  kb_flags,            \* modifiers that are on
  c                    \* what keyboard_get_key returned last

kbVars == <<kb_buf, last, kb_flags, c>>

Slots == 0 .. KB_BUF_SIZE - 1

Flags  == {"CTRL", "LSHIFT", "RSHIFT", "LALT"}
Shifts == {"LSHIFT", "RSHIFT"}

\* what the tables hold for a modifier key
Code == [CTRL |-> 192, LSHIFT |-> 21, RSHIFT |-> 37, LALT |-> 170]

Arrows == {161, 162, 163, 164}

FlagOf(key) == {f \in Flags : Code[f] = kbdus[key]}

-----------------------------------------------------------------------------
KbInit ==
  /\ kb_buf = [i \in Slots |-> 0]
  /\ last = 0
  /\ kb_flags = {}
  /\ c = 0

(* "TEMP": the return that makes the branch for released keys dead. *)
Ignored(code) == code > 57

IgnoredKey(code) ==
  /\ Ignored(code)
  /\ UNCHANGED kbVars

(* A modifier goes on when its key is pressed and off when it is released. *)
(* Caps lock, which a release toggles, has a code beyond 57.               *)
ModifierKey(code) ==
  /\ ~Ignored(code)
  /\ FlagOf(code % 128) # {}
  /\ kb_flags' = IF code >= 128 THEN kb_flags \ FlagOf(code % 128)
                 ELSE kb_flags \cup FlagOf(code)
  /\ UNCHANGED <<kb_buf, last, c>>

\* mutant: the buffer is found full one key too late
Counted_Late(n) == IF n > KB_BUF_SIZE THEN 0 ELSE n

(* if(last >= KB_BUF_SIZE) last = 0 *)
Counted(n) == IF n >= KB_BUF_SIZE THEN 0 ELSE n

Char(key) == IF kb_flags \cap Shifts # {} THEN kbdusShift[key] ELSE kbdus[key]

CharacterKey(code) ==
  /\ ~Ignored(code)
  /\ code < 128
  /\ FlagOf(code) = {} /\ kbdus[code] \notin Arrows
  /\ "CTRL" \notin kb_flags
  /\ kb_buf' = [kb_buf EXCEPT ![last] = Char(code)]
  /\ last' = Counted(last + 1)
  /\ UNCHANGED <<kb_flags, c>>

SilencedKey(code) ==
  /\ ~Ignored(code)
  /\ code < 128
  /\ FlagOf(code) = {} /\ kbdus[code] \notin Arrows
  /\ "CTRL" \in kb_flags
  /\ UNCHANGED kbVars

keyboard_handler(code) ==
  \/ IgnoredKey(code)
  \/ ModifierKey(code)
  \/ CharacterKey(code)
  \/ SilencedKey(code)

\* mutant: the first key is read when it has been shifted out
First_Shifted == kb_buf[1]

First == kb_buf[0]

\* keyboard_get_key, whole
GetKey ==
  \/ /\ last = 0
     /\ c' = 0
     /\ UNCHANGED <<kb_buf, last>>
  \/ /\ last # 0
     /\ c' = First
     /\ last' = last - 1
     /\ kb_buf' = [i \in Slots |-> IF i < KB_BUF_SIZE - 1 THEN kb_buf[i + 1] ELSE kb_buf[i]]

(* System call 3: the key is put into the CPU's eax in the middle of the   *)
(* handler, and isr_common_stub's popa puts back the eax of the caller, so *)
(* the process never sees the key; the buffer has lost it all the same.    *)
SyscallRead ==
  /\ GetKey
  /\ UNCHANGED kb_flags

KbNext == SyscallRead \/ \E code \in ScanCodes : keyboard_handler(code)

-----------------------------------------------------------------------------
BufferTypeOK ==
  /\ kb_buf \in [Slots -> 0 .. 255]
  /\ kb_flags \subseteq Flags
  /\ c \in 0 .. 255

\* the counter names the place of the next key, which is inside the buffer
KbTypeOK == BufferTypeOK /\ last \in Slots
=============================================================================
