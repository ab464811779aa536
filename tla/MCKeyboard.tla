----------------------------- MODULE MCKeyboard -----------------------------
(***************************************************************************)
(* LineInput with a buffer of four: for a process, a few keys of each      *)
(* kind; for the shell, a letter, shift, backspace and enter, and lines of *)
(* up to four keys into an array of three.                                 *)
(***************************************************************************)
EXTENDS LineInput

\* the error code 0, the a and b keys, CTRL, LSHIFT, caps lock, and CTRL, LSHIFT,
\* a released; backspace and enter
MC_ScanCodes == {0, 14, 28, 29, 30, 42, 48, 58, 157, 158, 170}
MC_ShellCodes == {14, 28, 30, 42}

MC_kbdus ==
  [k \in 0 .. 127 |-> CASE k = 29 -> 192 [] k = 42 -> 21 [] k = 54 -> 37 [] k = 56 -> 170
                        [] k = 14 -> 8 [] k = 28 -> 10
                        [] k = 30 -> 97 [] k = 48 -> 98 [] k = 58 -> 202 [] OTHER -> 0]
MC_kbdusShift ==
  [k \in 0 .. 127 |-> CASE k = 30 -> 65 [] k = 48 -> 66 [] k = 14 -> 8 [] k = 28 -> 10
                        [] OTHER -> 0]
=============================================================================
