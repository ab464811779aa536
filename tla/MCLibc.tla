------------------------------- MODULE MCLibc -------------------------------
(***************************************************************************)
(* Libc with ints of eight bits, all of them, memories of four bytes,      *)
(* strings of up to three characters on both sides of the letters and of   *)
(* 128, numerals with digits, signs and letters, and formats of up to five *)
(* characters.                                                             *)
(***************************************************************************)
EXTENDS Libc

MC_Bytes == {0, 1, 2}
MC_Strings == BoundedSeq({96, 97, 122, 200}, 3)
MC_Bases == {2, 10, 16}
MC_Numerals == BoundedSeq({45, 48, 49, 57, 120}, 3)
MC_Formats == BoundedSeq({"%", "c", "s", "x"}, 5)
=============================================================================
