------------------------------- MODULE MCPmm -------------------------------
(***************************************************************************)
(* Pmm on nine blocks: one whole byte of the bitmap, and one block in a    *)
(* trailing partial byte.                                                  *)
(***************************************************************************)
EXTENDS Pmm

MC_total_blocks == 9
MC_LastBlock == 31
MC_Clients == {0, 1, 2, 7, 8, 9, 30}     \* 8: the partial byte, 9: padding, 30: beyond RAM
=============================================================================
