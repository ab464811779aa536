--------------------------- MODULE FrameAllocator ---------------------------
(***************************************************************************)
(* What the physical memory manager promises its callers (map_virtual_     *)
(* address in kernel/arch/i386/mem/paging.c): every frame has at most one  *)
(* owner, an allocation hands out the lowest frame nobody has, and a frame *)
(* comes back only when its owner gives it back.                           *)
(***************************************************************************)
EXTENDS Naturals

CONSTANT Frames        \* the frame numbers an allocation may return

VARIABLES
  granted,             \* frames handed out by an allocation
  withheld             \* frames taken out of circulation by a reservation

absVars == <<granted, withheld>>

Available == Frames \ (granted \cup withheld)

AbsInit ==
  /\ granted = {}
  /\ withheld = {}

Grant(f) ==
  /\ f \in Available
  /\ \A g \in Available : f <= g
  /\ granted' = granted \cup {f}
  /\ UNCHANGED withheld

Withhold(f) ==
  /\ f \in Frames \ granted
  /\ withheld' = withheld \cup {f}
  /\ UNCHANGED granted

Release(f) ==
  /\ f \in granted \cup withheld
  /\ granted' = granted \ {f}
  /\ withheld' = withheld \ {f}

AbsNext == \E f \in Frames : Grant(f) \/ Withhold(f) \/ Release(f)

AbsSpec == AbsInit /\ [][AbsNext]_absVars
=============================================================================
