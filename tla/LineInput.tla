----------------------------- MODULE LineInput -----------------------------
(***************************************************************************)
(* Who reads the keyboard: a user process through system call 3, or the    *)
(* kernel's own shell (io/shell.c) with getstr and getch of libc/stdio/    *)
(* get.c.  The system call runs with interrupts disabled; the shell calls  *)
(* keyboard_get_key with interrupts enabled, and IRQ1 may come between any *)
(* two of its accesses to the buffer and to its counter.  Neither is       *)
(* volatile: whether the decrement of last reads it again, or uses the     *)
(* value that was tested, is up to the compiler.                           *)
(***************************************************************************)
EXTENDS Keyboard, Integers, SequencesExt

CONSTANTS
  ShellCodes,          \* the scan codes that come while the shell reads
  LineLength,          \* char input_string[20] of the shell
  MaxTyped             \* bound: keys of a line

ASSUME LineAssumption ==
  /\ ShellCodes \subseteq ScanCodes
  /\ LineLength \in Nat \ {0} /\ MaxTyped \in Nat

VARIABLES
  reader,              \* "process" or "shell"
  pc, i,               \* where keyboard_get_key is: "out", "test", "count", "shift"; its counter
  first, tested,       \* its local variable c, and the value of last that it has tested
  str,                 \* what getstr has stored
  smashed,             \* it has stored beyond the shell's array
  typed,               \* ghost: the keys typed since the last line ended
  hit,                 \* ghost: IRQ1 changed what this keyboard_get_key has read or not yet moved
  clean                \* ghost: since the last line ended, the buffer was not full and no key hit

getchVars == <<pc, i, first, tested, str, smashed, hit>>
lineVars  == <<kbVars, reader, getchVars, typed, clean>>

KeyChars  == {kbdus[k] : k \in 0 .. 127} \cup {kbdusShift[k] : k \in 0 .. 127}
Backspace == 8
Enter     == 10

LineInit ==
  /\ KbInit
  /\ reader \in {"process", "shell"}
  /\ pc = "out" /\ i = 0 /\ first = 0 /\ tested = 0
  /\ str = <<>> /\ smashed = FALSE
  /\ typed = <<>> /\ hit = FALSE /\ clean = TRUE

ProcessReads ==
  /\ reader = "process"
  /\ KbNext
  /\ UNCHANGED <<reader, getchVars, typed, clean>>

\* keyboard_get_key is here; memory has not been written outside the arrays, nor is it about to be
Shell(at) == reader = "shell" /\ ~smashed /\ last >= 0 /\ pc = at

\* a key stored where keyboard_get_key has just read, or is still to move
Hits ==
  /\ last' > last
  /\ \/ pc \in {"test", "count"} /\ last = 0
     \/ pc = "shift" /\ i <= last

\* the keys that wait, also while some are moved and some are not
Waiting == [k \in 1 .. last |-> IF pc = "shift" /\ k > i THEN kb_buf[k] ELSE kb_buf[k - 1]]

\* a key that whoever types it expects to arrive
Arrives(code) == code \in 0 .. 57 /\ FlagOf(code) = {} /\ "CTRL" \notin kb_flags

Irq1 ==
  /\ Shell(pc)
  /\ Len(typed) < MaxTyped
  /\ \E code \in ShellCodes :
       /\ keyboard_handler(code)
       /\ clean' = (clean /\ ~Hits /\ (Arrives(code) => Len(Waiting) + 1 < KB_BUF_SIZE))
       /\ typed' = IF ~clean' THEN <<>> ELSE IF Arrives(code) THEN Append(typed, Char(code)) ELSE typed
  /\ hit' = (hit \/ Hits)
  /\ UNCHANGED <<reader, pc, i, first, tested, str, smashed>>

\* unsigned int c = kb_buf[0]
ReadFirst ==
  /\ Shell("out")
  /\ first' = First
  /\ pc' = "test"
  /\ hit' = FALSE
  /\ UNCHANGED <<kbVars, reader, i, tested, str, smashed, typed, clean>>

\* if(last == 0) return 0, and getch calls again
TestLast ==
  /\ Shell("test")
  /\ \/ last = 0 /\ pc' = "out" /\ c' = 0 /\ UNCHANGED tested
     \/ last # 0 /\ pc' = "count" /\ tested' = last /\ UNCHANGED c
  /\ UNCHANGED <<kb_buf, last, kb_flags, reader, i, first, str, smashed, typed, hit, clean>>

\* mutant: the counter is not moved
Decremented_Kept(n) == n

Decremented(n) == n - 1

(* last--, on the counter in memory or on the value that was tested.  When *)
(* the overflow has come in between, the first leaves -1 in the counter,   *)
(* the second the keys that were forgotten; when a key has come, the       *)
(* second forgets it.                                                      *)
CountDown ==
  /\ Shell("count")
  /\ \E n \in {last, tested} :
       /\ last' = Decremented(n)
       /\ hit' = (hit \/ n # last \/ last = 0)
  /\ c' = first
  /\ i' = 0 /\ first' = 0 /\ tested' = 0      \* the locals are not read again
  /\ pc' = "shift"
  /\ clean' = (clean /\ ~hit')
  /\ typed' = IF clean' THEN typed ELSE <<>>
  /\ UNCHANGED <<kb_buf, kb_flags, reader, str, smashed>>

(* for(i = 0; i < KB_BUF_SIZE - 1; i++) kb_buf[i] = kb_buf[i + 1]: a key    *)
(* that comes between the load and the store of a step is hit as it is     *)
(* before the step.                                                        *)
Shift ==
  /\ Shell("shift")
  /\ i < KB_BUF_SIZE - 1
  /\ kb_buf' = [kb_buf EXCEPT ![i] = kb_buf[i + 1]]
  /\ i' = i + 1
  /\ UNCHANGED <<last, kb_flags, c, reader, pc, first, tested, str, smashed, typed, hit, clean>>

\* keyboard_get_key returns, and getch too unless the key stands for 0
Returns ==
  /\ Shell("shift")
  /\ i = KB_BUF_SIZE - 1
  /\ pc' = "out"
  /\ UNCHANGED <<kbVars, reader, i, first, tested>>

\* mutant: a backspace at the start of the line goes before it
Erased_Always(s) == IF s = <<>> THEN <<0>> ELSE Front(s)

Erased(s) == IF s = <<>> THEN s ELSE Front(s)

(* getstr: str[i++] = c, str[--i] = 0. *)
GetstrKey ==
  /\ Returns
  /\ c # Enter
  /\ str' = CASE c = 0         -> str
              [] c = Backspace -> Erased(str)
              [] OTHER         -> Append(str, c)
  /\ smashed' = (Len(str') > LineLength)
  /\ hit' = FALSE
  /\ UNCHANGED <<typed, clean>>

(* getstr stores the final 0; the shell prints and calls it again.  The    *)
(* account of the next line starts with the keys that wait.                *)
GetstrEnd ==
  /\ Returns
  /\ c = Enter
  /\ smashed' = (Len(str) = LineLength)
  /\ IF smashed' THEN UNCHANGED <<str, typed, clean>>
     ELSE str' = <<>> /\ typed' = Waiting /\ clean' = TRUE
  /\ hit' = FALSE

ShellReads == Irq1 \/ ReadFirst \/ TestLast \/ CountDown \/ Shift \/ GetstrKey \/ GetstrEnd

LineNext == ProcessReads \/ ShellReads

LineSpec == LineInit /\ [][LineNext]_lineVars

-----------------------------------------------------------------------------
(* A key is stored in the buffer and nowhere else, and the counter names a *)
(* place in it, but for one race: an overflow between the test of the      *)
(* counter and its decrement leaves -1 in it (keyboard.c:118-119), and the *)
(* next key would go before the buffer.  The model stops there.            *)
LineTypeOK ==
  /\ BufferTypeOK
  /\ last \in Slots \/ (last = -1 /\ reader = "shell" /\ hit)
  /\ reader \in {"process", "shell"}
  /\ pc \in {"out", "test", "count", "shift"}
  /\ i \in Slots /\ first \in 0 .. 255 /\ tested \in Slots

(* The buffer with its counter and its shifting is a queue of keys in the  *)
(* order they were typed, up to the overflow that empties it.  A process   *)
(* that reads it may rely on that, and the shell too, unless IRQ1 stores a *)
(* key into an empty buffer between keyboard.c:116 and 119, moves the      *)
(* counter between its test and its decrement so that one of them is lost  *)
(* or it falls below 0 (118-119), or stores a key at a place the loop of   *)
(* keyboard.c:120 has not passed.                                          *)
KQ == INSTANCE KeyQueue
        WITH Chars    <- KeyChars,
             Capacity <- KB_BUF_SIZE,
             waiting  <- Waiting,
             read     <- c

ImplementsKeyQueue ==
  KQ!QueueInit /\ [][KQ!QueueNext \/ hit']_<<Waiting, c>>

\* what a key does to a line (get.c:31-45)
Edit(s, k) ==
  CASE k \in {0, Enter}          -> s
    [] k = Backspace /\ s = <<>> -> s
    [] k = Backspace /\ s # <<>> -> Front(s)
    [] OTHER                     -> Append(s, k)

\* what a line looks like after its keys
Edited(keys) ==
  LET line[n \in 0 .. Len(keys)] == IF n = 0 THEN <<>> ELSE Edit(line[n - 1], keys[n])
  IN  line[Len(keys)]

\* the key that keyboard_get_key has taken and getstr has not seen
InFlight == IF pc = "shift" THEN <<c>> ELSE <<>>

(* From the keys to the line: what getstr has stored is what was typed so  *)
(* far, edited, and what it has not seen yet waits in the buffer.  So the  *)
(* shell's array is overrun only by a line that is typed too long.         *)
LineIsWhatWasTyped ==
  reader = "shell" /\ clean =>
    \E n \in 0 .. Len(typed) :
      /\ SubSeq(typed, n + 1, Len(typed)) = InFlight \o Waiting
      /\ Edited(SubSeq(typed, 1, n)) = str
=============================================================================
