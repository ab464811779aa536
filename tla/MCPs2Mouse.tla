----------------------------- MODULE MCPs2Mouse -----------------------------
(***************************************************************************)
(* Ps2Mouse with each kind of mouse, two keys and two movements.  31 looks *)
(* like a command byte that enables IRQ1 and stops the keyboard; a movement *)
(* of 8 has the V bit of a packet's first byte.                            *)
(***************************************************************************)
EXTENDS Ps2Mouse

MC_Mice == {"absent", "plain", "wheel"}
MC_Keys == {3, 31}
MC_Moves == {[buttons |-> {"LEFT"}, x |-> 8, y |-> -1, wheel |-> 1, overflow |-> FALSE],
             [buttons |-> {}, x |-> 1, y |-> 8, wheel |-> 0, overflow |-> TRUE]}
=============================================================================
