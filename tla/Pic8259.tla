------------------------------ MODULE Pic8259 ------------------------------
(***************************************************************************)
(* The cascaded pair of interrupt controllers as isr_install programs them *)
(* (edge triggered, every line unmasked, slave on line 2, ordinary end of  *)
(* interrupt): operators over the set of lines in service.                 *)
(***************************************************************************)
EXTENDS Integers

Master  == 0 .. 7
Slave   == 8 .. 15
Cascade == 2

\* the lines a controller marks when the CPU takes the interrupt
Marks(line) == IF line \in Slave THEN {Cascade, line} ELSE {line}

\* a spurious interrupt marks nothing on the chip it comes from
SpuriousMarks(line) == IF line \in Slave THEN {Cascade} ELSE {}

\* an interrupt in service holds back itself and what has lower priority
Blocked(inService, line) ==
  \/ \E m \in inService \cap Master :
       m <= (IF line \in Slave THEN Cascade ELSE line)
  \/ line \in Slave /\ \E m \in inService \cap Slave : m <= line

\* 0, 1, then the slave's lines in place of 2, then 3 to 7
Rank(line) == IF line \in Slave THEN line - 6 ELSE IF line < Cascade THEN line ELSE line + 7

\* what the controllers would present to the CPU
Presented(requests, inService, line) ==
  /\ line \in requests
  /\ ~Blocked(inService, line)
  /\ \A other \in requests : Blocked(inService, other) \/ Rank(line) <= Rank(other)

\* a non-specific end of interrupt retires the chip's highest priority
EndOfInterrupt(inService, chip) ==
  {m \in inService : m \notin chip \/ \E other \in inService \cap chip : other < m}
=============================================================================
