------------------------------ MODULE KeyQueue ------------------------------
(***************************************************************************)
(* What the keyboard driver (kernel/arch/i386/io/keyboard.c) promises who  *)
(* reads from it: keys come out one at a time, each once, in the order in  *)
(* which they were typed.  When as many are waiting as the buffer holds,   *)
(* all of them are forgotten.                                              *)
(***************************************************************************)
EXTENDS Naturals, Sequences

CONSTANTS
  Chars,               \* what keys stand for
  Capacity             \* KB_BUF_SIZE

VARIABLES
  waiting,             \* keys typed and not read
  read                 \* what the last read returned, 0 for none

queueVars == <<waiting, read>>

QueueInit ==
  /\ waiting = <<>>
  /\ read = 0

Put(c) ==
  /\ Len(waiting) + 1 < Capacity
  /\ waiting' = Append(waiting, c)
  /\ UNCHANGED read

Overflow ==
  /\ Len(waiting) + 1 = Capacity
  /\ waiting' = <<>>
  /\ UNCHANGED read

Get ==
  /\ waiting # <<>>
  /\ read' = Head(waiting)
  /\ waiting' = Tail(waiting)

GetNothing ==
  /\ waiting = <<>>
  /\ read' = 0
  /\ UNCHANGED waiting

QueueNext == (\E c \in Chars : Put(c)) \/ Overflow \/ Get \/ GetNothing

QueueSpec == QueueInit /\ [][QueueNext]_queueVars
=============================================================================
