---------------------------- MODULE MCInterrupts ----------------------------
(***************************************************************************)
(* Interrupts with the timer, the keyboard, the mouse and a slave line     *)
(* without callback, and both chips' spurious interrupts.                  *)
(***************************************************************************)
EXTENDS Interrupts

MC_Lines == {0, 1, 8, 12}
MC_Spurious == {7, 15}
MC_TickMod == 2
=============================================================================
