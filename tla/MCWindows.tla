----------------------------- MODULE MCWindows -----------------------------
(***************************************************************************)
(* Windows with at most five of them.                                      *)
(***************************************************************************)
EXTENDS Windows
=============================================================================
